---- MODULE Spec2Model ----
(***************************************************************************)
(* Upload/chat orchestrator of the document chat application.              *)
(*                                                                         *)
(* The repository holds two revisions of the orchestrator component App:   *)
(*   "env"    : src/App.tsx, credential from the host dialog or from the   *)
(*              build environment, store deleted on page unload;           *)
(*   "stored" : the App of src/components/icons/ClearChatIcon.tsx,         *)
(*              credential from the host dialog or typed by the user, the  *)
(*              session persisted in localStorage.                         *)
(* Both drive the same service wrapper (src/unnamed/part_000).  The        *)
(* variable app says which revision a behaviour runs.                      *)
(*                                                                         *)
(* One action is one synchronous run of a handler or of the continuation   *)
(* of an await, followed by the React effects its state updates trigger.   *)
(***************************************************************************)
EXTENDS Integers, Sequences, FiniteSets, TLC

\* ------------------------------------------------------------------ bounds
MaxFiles == 3       \* selected files
MaxStores == 2      \* stores the remote service creates in one behaviour
MaxFlows == 2       \* upload flows running at the same time
MaxHist == 3        \* messages in the chat history
MaxPending == 2     \* queries awaiting their response

\* ------------------------------------------------------------------ values
NULL == "<null>"                       \* JavaScript null (of a string | null)
Truthy(s) == s # NULL /\ s # ""        \* if (s) on a string | null

\* The files the user has at hand; the model selects them in this order.
UserFiles == <<"a.pdf", "b.txt", "c.md", "d.txt">>
KeyInputs == {"", " ", "AIza"}         \* what the user may type as a key
StoreName(n) == "fileSearchStores/" \o ToString(n)
StoreNames == {StoreName(n) : n \in 1..MaxStores}

\* Messages the remote service rejects a call with.
ErrInvalidKey == "API key not valid. Please pass a valid API key."
ErrNotFound == "Requested entity was not found."
ErrFetch == "Failed to fetch"
RemoteErrors == {ErrInvalidKey, ErrNotFound, ErrFetch}

UserText == "q1"
ModelText == "r1"

\* ----------------------------------------------------------------- strings
LowerChar(c) ==
    CASE c = "A" -> "a" [] c = "B" -> "b" [] c = "C" -> "c" [] c = "D" -> "d"
      [] c = "E" -> "e" [] c = "F" -> "f" [] c = "G" -> "g" [] c = "H" -> "h"
      [] c = "I" -> "i" [] c = "J" -> "j" [] c = "K" -> "k" [] c = "L" -> "l"
      [] c = "M" -> "m" [] c = "N" -> "n" [] c = "O" -> "o" [] c = "P" -> "p"
      [] c = "Q" -> "q" [] c = "R" -> "r" [] c = "S" -> "s" [] c = "T" -> "t"
      [] c = "U" -> "u" [] c = "V" -> "v" [] c = "W" -> "w" [] c = "X" -> "x"
      [] c = "Y" -> "y" [] c = "Z" -> "z" [] OTHER -> c

RECURSIVE LowerFrom(_, _)
LowerFrom(s, i) ==
    IF i > Len(s) THEN "" ELSE LowerChar(SubSeq(s, i, i)) \o LowerFrom(s, i + 1)

\* String.prototype.toLowerCase
toLowerCase(s) == LowerFrom(s, 1)

\* String.prototype.includes
includes(s, sub) ==
    \E i \in 1..(Len(s) - Len(sub) + 1) : SubSeq(s, i, i + Len(sub) - 1) = sub

\* String.prototype.trim: blanks and line breaks are stripped at both ends
RECURSIVE TrimLeft(_)
TrimLeft(s) ==
    IF Len(s) > 0 /\ SubSeq(s, 1, 1) \in {" ", "\n"}
    THEN TrimLeft(SubSeq(s, 2, Len(s))) ELSE s

RECURSIVE TrimRight(_)
TrimRight(s) ==
    IF Len(s) > 0 /\ SubSeq(s, Len(s), Len(s)) \in {" ", "\n"}
    THEN TrimRight(SubSeq(s, 1, Len(s) - 1)) ELSE s

trim(s) == TrimRight(TrimLeft(s))

\* ------------------------------------------------- example-question replies
\* JSON values as JSON.parse builds them.


\* JSON.parse on the texts the replies below contain; any other text is a
\* SyntaxError.
JSONTable ==
    <<<<"[\"d1\",\"d2\"]",
        [t |-> "array", items |-> <<[t |-> "string", s |-> "d1"], [t |-> "string", s |-> "d2"]>>]>>,
      <<"[{\"product\":\"A\",\"questions\":[\"d1\"]},{\"product\":\"B\",\"questions\":[\"d2\"]}]",
        [t |-> "array", items |-> <<[t |-> "object", fields |-> [product |-> [t |-> "string", s |-> "A"], questions |-> [t |-> "array", items |-> <<[t |-> "string", s |-> "d1"]>>]]], [t |-> "object", fields |-> [product |-> [t |-> "string", s |-> "B"], questions |-> [t |-> "array", items |-> <<[t |-> "string", s |-> "d2"]>>]]]>>]>>,
      <<"[\"d1\",7,\"d2\"]",
        [t |-> "array", items |-> <<[t |-> "string", s |-> "d1"], [t |-> "number"], [t |-> "string", s |-> "d2"]>>]>>,
      <<"[{\"product\":\"A\",\"questions\":[\"d1\",7]},{\"product\":\"B\",\"questions\":[\"d2\"]}]",
        [t |-> "array", items |-> <<[t |-> "object", fields |-> [product |-> [t |-> "string", s |-> "A"], questions |-> [t |-> "array", items |-> <<[t |-> "string", s |-> "d1"], [t |-> "number"]>>]]], [t |-> "object", fields |-> [product |-> [t |-> "string", s |-> "B"], questions |-> [t |-> "array", items |-> <<[t |-> "string", s |-> "d2"]>>]]]>>]>>,
      <<"[{\"questions\":[\"d1\",\"d2\"]},{\"product\":\"B\"}]",
        [t |-> "array", items |-> <<[t |-> "object", fields |-> [questions |-> [t |-> "array", items |-> <<[t |-> "string", s |-> "d1"], [t |-> "string", s |-> "d2"]>>]]], [t |-> "object", fields |-> [product |-> [t |-> "string", s |-> "B"]]]>>]>>,
      <<"[{\"questions\":[\"d1\"]},null]",
        [t |-> "array", items |-> <<[t |-> "object", fields |-> [questions |-> [t |-> "array", items |-> <<[t |-> "string", s |-> "d1"]>>]]], [t |-> "null"]>>]>>,
      <<"[{\"questions\":\"d1\"}]",
        [t |-> "array", items |-> <<[t |-> "object", fields |-> [questions |-> [t |-> "string", s |-> "d1"]]]>>]>>,
      <<"[1,2]",
        [t |-> "array", items |-> <<[t |-> "number"], [t |-> "number"]>>]>>,
      <<"{\"questions\":[\"d1\"]}",
        [t |-> "object", fields |-> [questions |-> [t |-> "array", items |-> <<[t |-> "string", s |-> "d1"]>>]]]>>,
      <<"[]",
        [t |-> "array", items |-> <<>>]>>>>
JSONparseOk(text) == \E n \in DOMAIN JSONTable : JSONTable[n][1] = text
JSONparseText(text) == JSONTable[CHOOSE n \in DOMAIN JSONTable : JSONTable[n][1] = text][2]

\* The positions at which sub occurs in s.
Occurrences(s, sub) ==
    {i \in 1..(Len(s) - Len(sub) + 1) : SubSeq(s, i, i + Len(sub) - 1) = sub}

Least(S) == CHOOSE i \in S : \A j \in S : i <= j
Greatest(S) == CHOOSE i \in S : \A j \in S : j <= i

\* The fence lines of a code block.  The backquote is written ^ here.
FenceOpen == "^^^json\n"
FenceClose == "\n^^^"

\* jsonText.match(/^^^json\n([\s\S]*?)\n^^^/): the leftmost opening fence that
\* has a closing fence behind it, and the nearest such closing fence.
FenceCloses(s) ==
    IF Occurrences(s, FenceOpen) = {} THEN {}
    ELSE {j \in Occurrences(s, FenceClose) :
             j >= Least(Occurrences(s, FenceOpen)) + Len(FenceOpen)}
jsonMatch1(s) ==
    SubSeq(s, Least(Occurrences(s, FenceOpen)) + Len(FenceOpen), Least(FenceCloses(s)) - 1)

\* The text handed to JSON.parse: the fenced block, else the span from the
\* first "[" to the last "]", else the whole trimmed reply.
ExtractJsonText(text) ==
    LET jsonText == trim(text)
        opens == Occurrences(jsonText, "[")
        closes == Occurrences(jsonText, "]")
    IN  IF FenceCloses(jsonText) # {} /\ jsonMatch1(jsonText) # ""
        THEN jsonMatch1(jsonText)
        ELSE IF opens # {} /\ closes # {} /\ Greatest(closes) > Least(opens)
             THEN SubSeq(jsonText, Least(opens), Greatest(closes))
             ELSE jsonText

\* item.questions: undefined unless the item is an object that has the key.
ItemQuestions(item) ==
    IF item.t = "object" /\ "questions" \in DOMAIN item.fields
    THEN item.fields.questions ELSE [t |-> "undefined"]

Falsy(v) == v.t \in {"undefined", "null"} \/ (v.t = "string" /\ v.s = "")

\* parsedData.flatMap(item => (item.questions || [])): an array is spread, any
\* other truthy value is one element.
RECURSIVE flatMapQuestions(_)
flatMapQuestions(items) ==
    IF items = <<>> THEN <<>>
    ELSE LET qs == ItemQuestions(items[1])
         IN  (IF Falsy(qs) THEN <<>>
              ELSE IF qs.t = "array" THEN qs.items ELSE <<qs>>)
             \o flatMapQuestions(Tail(items))

\* .filter(q => typeof q === 'string')
RECURSIVE filterStrings(_)
filterStrings(items) ==
    IF items = <<>> THEN <<>>
    ELSE (IF items[1].t = "string" THEN <<items[1].s>> ELSE <<>>)
         \o filterStrings(Tail(items))

\* Reading .questions of null throws a TypeError.
flatMapThrows(items) == \E n \in DOMAIN items : items[n].t = "null"

\* The first item has the {product, questions[]} format.
IsNewFormat(firstItem) ==
    /\ firstItem.t = "object"
    /\ "questions" \in DOMAIN firstItem.fields
    /\ firstItem.fields.questions.t = "array"

\* Faulty variant of QuestionsOfParsed: only the first product's questions.
QuestionsOfFirstProduct(parsedData) ==
    IF parsedData.t # "array" \/ parsedData.items = <<>> THEN <<>>
    ELSE IF IsNewFormat(parsedData.items[1])
         THEN filterStrings(parsedData.items[1].fields.questions.items)
         ELSE IF parsedData.items[1].t = "string"
              THEN filterStrings(parsedData.items)
              ELSE <<>>

\* generateExampleQuestions behind JSON.parse.
QuestionsOfParsed(parsedData) ==
    IF parsedData.t # "array" \/ parsedData.items = <<>> THEN <<>>
    ELSE IF IsNewFormat(parsedData.items[1])
         THEN IF flatMapThrows(parsedData.items) THEN <<>>
              ELSE filterStrings(flatMapQuestions(parsedData.items))
         ELSE IF parsedData.items[1].t = "string"
              THEN filterStrings(parsedData.items)
              ELSE <<>>

\* What ai.models.generateContent does: it rejects, or it resolves with a
\* response whose text is a string or undefined.
ReplyTexts ==
    LET JsonFlat == JSONTable[1][1]
        JsonGrouped == JSONTable[2][1]
        JsonMixed == JSONTable[3][1]
        JsonGroupedMixed == JSONTable[4][1]
        JsonGroupedNull == JSONTable[6][1]
        JsonQuestionsNoArray == JSONTable[7][1]
        JsonNumbers == JSONTable[8][1]
        JsonObject == JSONTable[9][1]
        JsonEmpty == JSONTable[10][1]
    IN
    {"^^^json\n" \o JsonFlat \o "\n^^^",
     "^^^json\n" \o JsonGrouped \o "\n^^^",
     "Ecco le domande: " \o JsonFlat \o " Buona lettura.",
     "^^^json" \o JsonFlat \o "^^^",
     "  ^^^json\n" \o JsonGrouped \o "\n^^^\n",
     "^^^json\n" \o JsonMixed \o "\n^^^",
     JsonGroupedMixed,
     "^^^json\n[{\"questions\":" \o JsonFlat \o "},{\"product\":\"B\"}]\n^^^",
     JsonGroupedNull,
     JsonQuestionsNoArray,
     JsonNumbers,
     "^^^json\n" \o JsonObject \o "\n^^^",
     JsonEmpty,
     "Non ho trovato manuali.",
     "Vedi [1]: " \o JsonFlat,
     "] ["}
Responses ==
    {[outcome |-> "rejects", text |-> ""], [outcome |-> "undefined", text |-> ""]}
    \cup {[outcome |-> "text", text |-> text] : text \in ReplyTexts}

\* generateExampleQuestions once the client is initialized; every exception
\* inside its try block ends in the catch block's return [].
generateExampleQuestions(response) ==
    IF response.outcome # "text" THEN <<>>
    ELSE IF ~JSONparseOk(ExtractJsonText(response.text)) THEN <<>>
         ELSE QuestionsOfParsed(JSONparseText(ExtractJsonText(response.text)))

\* The function tabulated over the replies, and the lists it returns.
QuestionsOf == [response \in Responses |-> generateExampleQuestions(response)]
QuestionLists == {QuestionsOf[response] : response \in Responses}

\* ------------------------------------------------------------------- state
VARIABLES
    app,                  \* "env" (src/App.tsx) or "stored" (the persisting App)
    aistudio,             \* window.aistudio offers the key-selection dialog
    envKey,               \* process.env.API_KEY is set
    hostKey,              \* what window.aistudio.hasSelectedApiKey() answers
    mounted,              \* the component is mounted and its mount effects ran
    status,
    isAistudioAvailable,
    isApiKeySelected,     \* isApiKeySelected ("env"), isAistudioKeySelected ("stored")
    apiKey,
    apiKeyError,
    error,
    uploadProgress,       \* <<>> for null, <<record>> otherwise
    activeRagStoreName,
    chatHistory,
    isQueryLoading,
    exampleQuestions,
    documentName,
    files,
    ragStoreNameRef,
    ai,                   \* the service module's client is initialized
    localStorage,         \* a function from the keys present to their values
    initPc,               \* the initialize() run started under the host dialog
    initStored,           \* its local storedRagStore
    flows,                \* the running calls of handleUploadAndStartChat
    queries,              \* per store, the calls of handleSendMessage awaiting fileSearch
    remoteStores,         \* stores the remote service has created
    deleteReqs,           \* per store, the delete requests the service received
    mdText,               \* renderMarkdown: its argument text
    lines,                \* renderMarkdown: text.split('\n')
    lineNo,               \* renderMarkdown: lines the for loop has processed
    html,                 \* renderMarkdown: the output built so far
    listType,             \* renderMarkdown: "ul", "ol" or NULL
    paraBuffer,           \* renderMarkdown: the paragraph being collected
    renderPc,             \* renderMarkdown: "idle", "start", "loop" or "done"
    lastOp                \* observation only: "onUpload" when the last step was
                          \* a call of onUpload, else "-"

envVars == <<app, aistudio, envKey, hostKey>>
keyVars == <<isApiKeySelected, apiKey, apiKeyError>>
sessionVars == <<activeRagStoreName, chatHistory, exampleQuestions, documentName>>
initVars == <<initPc, initStored>>
remoteVars == <<remoteStores, deleteReqs>>
renderVars == <<mdText, lines, lineNo, html, listType, paraBuffer, renderPc>>
appVars == <<app, aistudio, envKey, hostKey, mounted, status, isAistudioAvailable,
             isApiKeySelected, apiKey, apiKeyError, error, uploadProgress,
             activeRagStoreName, chatHistory, isQueryLoading, exampleQuestions,
             documentName, files, ragStoreNameRef, ai, localStorage, initPc,
             initStored, flows, queries, remoteStores, deleteReqs, lastOp>>
vars == <<app, aistudio, envKey, hostKey, mounted, status, isAistudioAvailable,
          isApiKeySelected, apiKey, apiKeyError, error, uploadProgress,
          activeRagStoreName, chatHistory, isQueryLoading, exampleQuestions,
          documentName, files, ragStoreNameRef, ai, localStorage, initPc,
          initStored, flows, queries, remoteStores, deleteReqs, lastOp,
          mdText, lines, lineNo, html, listType, paraBuffer, renderPc>>

\* ------------------------------------------------------------ localStorage
EmptyStorage == [x \in {} |-> NULL]
getItem(ls, k) == IF k \in DOMAIN ls THEN ls[k] ELSE NULL
setItem(ls, k, v) == [x \in DOMAIN ls \cup {k} |-> IF x = k THEN v ELSE ls[x]]
removeItem(ls, k) == [x \in DOMAIN ls \ {k} |-> ls[x]]

\* JSON.stringify / JSON.parse of the arrays the App persists.  A stored text is
\* the array tagged as JSON text; any other text does not parse.
JSONstringify(v) == [json |-> v]
JSONparses(t) == DOMAIN t = {"json"}
JSONparse(t) == t.json

\* Faulty variant of StoredArray: the stored text is never read back.
StoredArrayDropped(ls, k) == <<>>

\* JSON.parse(localStorage.getItem(k) || '[]') inside try/catch returning []
StoredArray(ls, k) ==
    IF k \in DOMAIN ls /\ JSONparses(ls[k]) THEN JSONparse(ls[k]) ELSE <<>>

\* localStorage.getItem(k) || ''
StoredString(ls, k) == IF Truthy(getItem(ls, k)) THEN ls[k] ELSE ""

\* The effect on [apiKey].
PersistKey(ls, key) ==
    IF key # "" THEN setItem(ls, "geminiApiKey", key) ELSE removeItem(ls, "geminiApiKey")

\* Faulty variant of PersistSession: without a handle only the handle's entry
\* is removed.
PersistSessionHandleOnly(ls, active, doc, hist, qs) ==
    IF Truthy(active)
    THEN setItem(setItem(setItem(setItem(ls, "ragStoreName", active),
             "documentName", doc),
             "chatHistory", JSONstringify(hist)),
             "exampleQuestions", JSONstringify(qs))
    ELSE removeItem(ls, "ragStoreName")

\* The effect on [activeRagStoreName, documentName, chatHistory, exampleQuestions].
PersistSession(ls, active, doc, hist, qs) ==
    IF Truthy(active)
    THEN setItem(setItem(setItem(setItem(ls, "ragStoreName", active),
             "documentName", doc),
             "chatHistory", JSONstringify(hist)),
             "exampleQuestions", JSONstringify(qs))
    ELSE removeItem(removeItem(removeItem(removeItem(ls, "ragStoreName"),
             "documentName"), "chatHistory"), "exampleQuestions")

\* The effects a render runs after the session state was set, per revision:
\* "env" copies the handle into the ref, "stored" persists the session.
RefAfter(active) == IF app = "env" THEN active ELSE NULL
StorageAfter(ls, active, doc, hist, qs) ==
    IF app = "stored" THEN PersistSession(ls, active, doc, hist, qs) ELSE ls

\* -------------------------------------------------------------- credential
\* isApiKeyConfigured of the "stored" App; the "env" App reads isApiKeySelected.
isApiKeyConfigured ==
    IF app = "stored"
    THEN (IF isAistudioAvailable THEN isApiKeySelected ELSE trim(apiKey) # "")
    ELSE isApiKeySelected

\* geminiService.initialize(apiKey?): whether a key is found (else it throws).
InitializeOk(key) == Truthy(key) \/ envKey

\* ---------------------------------------------------------- calls in flight
\* A call of handleUploadAndStartChat: where it stands (pc), the file it is at
\* (i), the store it created, its closure's files and isAistudioAvailable, and
\* the done flag of the operation uploadToRagStore received last (done).
NoFlow ==
    [pc |-> "idle", i |-> 0, store |-> NULL, files |-> <<>>, avail |-> FALSE,
     done |-> FALSE]
NoCounts == [s \in StoreNames |-> 0]

\* ------------------------------------------------------------------- start
\* The state before the component mounts: the useState initialisers.
AppInit ==
    /\ app \in {"env", "stored"}
    /\ aistudio \in BOOLEAN
    /\ envKey \in BOOLEAN
    /\ hostKey \in (IF aistudio THEN BOOLEAN ELSE {FALSE})
    /\ mounted = FALSE
    /\ status = "Initializing"
    /\ isAistudioAvailable = FALSE
    /\ isApiKeySelected = FALSE
    /\ apiKey = ""
    /\ apiKeyError = NULL
    /\ error = NULL
    /\ uploadProgress = <<>>
    /\ activeRagStoreName = NULL
    /\ chatHistory = <<>>
    /\ isQueryLoading = FALSE
    /\ exampleQuestions = <<>>
    /\ documentName = ""
    /\ files = <<>>
    /\ ragStoreNameRef = NULL
    /\ ai = FALSE
    /\ localStorage = EmptyStorage
    /\ initPc = "idle"
    /\ initStored = NULL
    /\ flows = [f \in 1..MaxFlows |-> NoFlow]
    /\ queries = NoCounts
    /\ remoteStores = {}
    /\ deleteReqs = NoCounts
    /\ lastOp = "-"

\* No call of renderMarkdown is under way.
RenderIdle ==
    /\ mdText = "" /\ lines = <<>> /\ lineNo = 0
    /\ html = "" /\ listType = NULL /\ paraBuffer = ""
    /\ renderPc = "idle"

Init == AppInit /\ RenderIdle

\* ------------------------------------------------------------ mount, reload
\* One run of the initialize() effect of the "stored" App whose closure has
\* isAistudioAvailable = false: checkAistudioApiKey() does nothing and the one
\* await resolves at once, so the run is a single step.  Its result on the
\* storage ls left by the persistence effects and the key of its closure.
\* Faulty variant of ResumeWanted: the stored key is not looked at.
ResumeWantedHandleOnly(ls) == Truthy(getItem(ls, "ragStoreName"))
ResumeWanted(ls) ==
    Truthy(getItem(ls, "ragStoreName")) /\ trim(StoredString(ls, "geminiApiKey")) # ""
ResumeKey(ls, key) == IF key # "" THEN key ELSE getItem(ls, "geminiApiKey")
ResumeStatus(ls, key) ==
    IF ResumeWanted(ls) /\ InitializeOk(ResumeKey(ls, key)) THEN "Chatting" ELSE "Welcome"
ResumeStorage(ls, key) ==
    IF ResumeWanted(ls) /\ ~InitializeOk(ResumeKey(ls, key))
    THEN removeItem(ls, "ragStoreName") ELSE ls
ResumeAi(ls, key) == ai \/ (ResumeWanted(ls) /\ InitializeOk(ResumeKey(ls, key)))

\* The mount effects, in the order the component declares them.
Mount ==
    /\ ~mounted
    /\ mounted' = TRUE
    /\ isAistudioAvailable' = aistudio
    /\ IF app = "env"
       THEN /\ isApiKeySelected' = envKey
            /\ status' = "Welcome"
            /\ UNCHANGED <<ai, localStorage, initPc>>
       ELSE LET ls == PersistSession(PersistKey(localStorage, apiKey),
                          activeRagStoreName, documentName, chatHistory,
                          exampleQuestions)
            IN  /\ status' = ResumeStatus(ls, apiKey)
                /\ localStorage' = ResumeStorage(ls, apiKey)
                /\ ai' = ResumeAi(ls, apiKey)
                /\ initPc' = IF aistudio THEN "check" ELSE "idle"
                /\ UNCHANGED isApiKeySelected
    /\ ragStoreNameRef' = RefAfter(activeRagStoreName)
    /\ lastOp' = "-"
    /\ UNCHANGED renderVars
    /\ UNCHANGED <<envVars, apiKey, apiKeyError, error, uploadProgress, sessionVars,
                   isQueryLoading, files, initStored, flows, queries, remoteVars>>

\* Faulty variant of DeleteIssued: no request is sent.
DeleteNotIssued(reqs, s) == reqs

\* geminiService.deleteRagStore called and not awaited: the request reaches the
\* service only when the client is initialized (otherwise the promise rejects).
DeleteIssued(reqs, s) == IF ai THEN [reqs EXCEPT ![s] = @ + 1] ELSE reqs

\* Faulty variant of handleUnload: the listener reads the handle its closure
\* captured when it was registered (null) instead of the ref.
handleUnloadFromClosure(reqs) == reqs

\* handleUnload of the "env" App.
handleUnload(reqs) ==
    IF app = "env" /\ Truthy(ragStoreNameRef) THEN DeleteIssued(reqs, ragStoreNameRef)
    ELSE reqs

\* The page is reloaded: beforeunload runs, every pending continuation is
\* abandoned, the module and the component state start again from localStorage.
Reload ==
    /\ mounted
    /\ mounted' = FALSE
    /\ envKey' \in BOOLEAN
    /\ deleteReqs' = handleUnload(deleteReqs)
    /\ status' = "Initializing"
    /\ isAistudioAvailable' = FALSE
    /\ isApiKeySelected' = FALSE
    /\ apiKey' = IF app = "stored" THEN StoredString(localStorage, "geminiApiKey") ELSE ""
    /\ apiKeyError' = NULL
    /\ error' = NULL
    /\ uploadProgress' = <<>>
    /\ activeRagStoreName' =
           IF app = "stored" THEN getItem(localStorage, "ragStoreName") ELSE NULL
    /\ chatHistory' =
           IF app = "stored" THEN StoredArray(localStorage, "chatHistory") ELSE <<>>
    /\ exampleQuestions' =
           IF app = "stored" THEN StoredArray(localStorage, "exampleQuestions") ELSE <<>>
    /\ documentName' =
           IF app = "stored" THEN StoredString(localStorage, "documentName") ELSE ""
    /\ isQueryLoading' = FALSE
    /\ files' = <<>>
    /\ ragStoreNameRef' = NULL
    /\ ai' = FALSE
    /\ initPc' = "idle"
    /\ initStored' = NULL
    /\ flows' = [f \in 1..MaxFlows |-> NoFlow]
    /\ queries' = NoCounts
    /\ lastOp' = "-"
    /\ UNCHANGED renderVars
    /\ UNCHANGED <<app, aistudio, hostKey, localStorage, remoteStores>>

\* The initialize() run whose closure has isAistudioAvailable = true, first
\* part: checkAistudioApiKey() has its answer (false when the host call fails),
\* then storedRagStore is read.
InitCheck ==
    /\ mounted /\ initPc = "check"
    /\ isApiKeySelected' \in {hostKey, FALSE}
    /\ initStored' = getItem(localStorage, "ragStoreName")
    /\ initPc' = "decide"
    /\ lastOp' = "-"
    /\ UNCHANGED renderVars
    /\ UNCHANGED <<envVars, mounted, status, isAistudioAvailable, apiKey, apiKeyError,
                   error, uploadProgress, sessionVars, isQueryLoading, files,
                   ragStoreNameRef, ai, localStorage, flows, queries, remoteVars>>

\* Second part: hasSelectedApiKey() answered keyConfigured (a rejected call ends
\* the run with nothing set).
InitDecide ==
    /\ mounted /\ initPc = "decide"
    /\ initPc' = "idle"
    /\ initStored' = NULL
    /\ \E answered \in BOOLEAN :
          IF ~answered
          THEN UNCHANGED <<status, ai, localStorage>>
          ELSE IF Truthy(initStored) /\ hostKey
          THEN IF InitializeOk(NULL)
               THEN status' = "Chatting" /\ ai' = TRUE /\ UNCHANGED localStorage
               ELSE /\ localStorage' = removeItem(localStorage, "ragStoreName")
                    /\ status' = "Welcome"
                    /\ UNCHANGED ai
          ELSE status' = "Welcome" /\ UNCHANGED <<ai, localStorage>>
    /\ lastOp' = "-"
    /\ UNCHANGED renderVars
    /\ UNCHANGED <<envVars, mounted, isAistudioAvailable, keyVars, error,
                   uploadProgress, sessionVars, isQueryLoading, files,
                   ragStoreNameRef, flows, queries, remoteVars>>

\* --------------------------------------------------------------- credential
\* checkApiKey / checkAistudioApiKey on window focus or visibility change.
checkApiKey ==
    /\ mounted
    /\ isAistudioAvailable \/ app = "env"
    /\ IF isAistudioAvailable
       THEN isApiKeySelected' \in {hostKey, FALSE}
       ELSE isApiKeySelected' = envKey
    /\ lastOp' = "-"
    /\ UNCHANGED renderVars
    /\ UNCHANGED <<envVars, mounted, status, isAistudioAvailable, apiKey, apiKeyError,
                   error, uploadProgress, sessionVars, isQueryLoading, files,
                   ragStoreNameRef, ai, localStorage, initVars, flows, queries,
                   remoteVars>>

\* handleSelectKey: the dialog is shown while no key is selected; the user
\* picks a key or leaves, then the key is checked again.
handleSelectKey ==
    /\ mounted /\ status = "Welcome"
    /\ isAistudioAvailable /\ ~isApiKeySelected
    /\ hostKey' \in {hostKey, TRUE}
    /\ isApiKeySelected' = hostKey'
    /\ lastOp' = "-"
    /\ UNCHANGED renderVars
    /\ UNCHANGED <<app, aistudio, envKey, mounted, status, isAistudioAvailable, apiKey,
                   apiKeyError, error, uploadProgress, sessionVars, isQueryLoading,
                   files, ragStoreNameRef, ai, localStorage, initVars, flows, queries,
                   remoteVars>>

\* setApiKey from the key input of the "stored" WelcomeScreen, shown while no
\* key is configured; then the effects on [apiKey]: the key is persisted and
\* initialize() runs again.
setApiKey(k) ==
    /\ mounted /\ status = "Welcome"
    /\ app = "stored" /\ ~isAistudioAvailable /\ ~isApiKeyConfigured
    /\ k # apiKey
    /\ apiKey' = k
    /\ LET ls == PersistKey(localStorage, k)
       IN  /\ status' = ResumeStatus(ls, k)
           /\ localStorage' = ResumeStorage(ls, k)
           /\ ai' = ResumeAi(ls, k)
    /\ lastOp' = "-"
    /\ UNCHANGED renderVars
    /\ UNCHANGED <<envVars, mounted, isAistudioAvailable, isApiKeySelected, apiKeyError,
                   error, uploadProgress, sessionVars, isQueryLoading, files,
                   ragStoreNameRef, initVars, flows, queries, remoteVars>>

\* -------------------------------------------------------------------- files
\* handleFileChange / handleDrop of the WelcomeScreen, one file at a time.
handleFileChange(name) ==
    /\ mounted /\ status = "Welcome"
    /\ Len(files) < MaxFiles /\ Len(files) < Len(UserFiles)
    /\ files' = Append(files, name)
    /\ lastOp' = "-"
    /\ UNCHANGED renderVars
    /\ UNCHANGED <<envVars, mounted, status, isAistudioAvailable, keyVars, error,
                   uploadProgress, sessionVars, isQueryLoading, ragStoreNameRef, ai,
                   localStorage, initVars, flows, queries, remoteVars>>

handleRemoveFile(indexToRemove) ==
    /\ mounted /\ status = "Welcome"
    /\ indexToRemove \in 1..Len(files)
    /\ files' = SubSeq(files, 1, indexToRemove - 1)
                  \o SubSeq(files, indexToRemove + 1, Len(files))
    /\ lastOp' = "-"
    /\ UNCHANGED renderVars
    /\ UNCHANGED <<envVars, mounted, status, isAistudioAvailable, keyVars, error,
                   uploadProgress, sessionVars, isQueryLoading, ragStoreNameRef, ai,
                   localStorage, initVars, flows, queries, remoteVars>>

\* -------------------------------------------------------------- upload flow
\* User-visible texts (accented letters written without the accent).
MsgKeyRequired ==
    IF app = "env" THEN "Per favore, seleziona o imposta la tua Chiave API Gemini."
    ELSE "E richiesta una Chiave API Gemini per continuare."
MsgKeyInvalid ==
    IF app = "env"
    THEN "La chiave API fornita non e valida. Selezionane una diversa o impostane una corretta e riprova."
    ELSE "La Chiave API Gemini non e valida."
MsgInitFailed == "Inizializzazione fallita. Assicurati che la tua chiave API sia valida."
MsgUploadFailed == "Impossibile avviare la sessione di chat"
MsgQueryFailed == "Impossibile ottenere una risposta"
MsgApology == "Spiacente, ho riscontrato un errore. Riprova."
ErrNoKey ==
    "La Chiave API non e configurata. Forniscine una o imposta la variabile d'ambiente API_KEY."
ErrNoName == "Impossibile creare l'archivio RAG: nome mancante."

\* Faulty variant of handleErrorText: the cause is dropped.
handleErrorTextWithoutCause(message, cause) == message

\* handleError's text for an Error err with message cause.
handleErrorText(message, cause) == message \o ": " \o cause

\* The catch block's test for an invalid credential.
IsInvalidKeyError(message) ==
    LET errorMessage == toLowerCase(message)
    IN  \/ includes(errorMessage, "api key not valid")
        \/ includes(errorMessage, "requested entity was not found")

\* The messages a flow can fail with, and those of them the test accepts.
FlowErrors == RemoteErrors \cup {ErrNoName}
InvalidKeyErrors == {m \in FlowErrors : IsInvalidKeyError(m)}

\* Whether the catch block marks the credential unselected, for a flow whose
\* closure has isAistudioAvailable = avail.
ClearsKeySelection(avail) == IF app = "env" THEN TRUE ELSE avail

\* Faulty variant of DocName: two files are labelled by their count.
DocNameCountFromTwo(fs) ==
    IF Len(fs) = 1 THEN fs[1] ELSE ToString(Len(fs)) \o " documenti"

\* The document label of the selected files.
DocName(fs) ==
    IF Len(fs) = 1 THEN fs[1]
    ELSE IF Len(fs) = 2 THEN fs[1] \o " e " \o fs[2]
    ELSE ToString(Len(fs)) \o " documenti"

Progress(current, total, message) ==
    <<[current |-> current, total |-> total, message |-> message]>>

\* setUploadProgress(prev => ({...prev!, current, message, fileName})): a null
\* prev leaves total undefined, written 0.
ProgressFrom(prev, current, message) ==
    IF prev = <<>> THEN Progress(current, 0, message)
    ELSE Progress(current, prev[1].total, message)

\* The key handed to geminiService.initialize by the upload handler.
UploadKey == IF app = "stored" /\ ~isAistudioAvailable THEN apiKey ELSE NULL

HasFreeFlow == \E f \in 1..MaxFlows : flows[f].pc = "idle"
FreeFlow ==
    CHOOSE f \in 1..MaxFlows :
        flows[f].pc = "idle" /\ \A g \in 1..(f - 1) : flows[g].pc # "idle"

\* Each store a behaviour creates counts against MaxStores: a flow starts
\* only while the service can still name a store for it.
StoresLeft ==
    Cardinality(remoteStores) + Cardinality({f \in 1..MaxFlows : flows[f].pc = "create"})
        < MaxStores

\* Faulty variants of UploadCheck: one without the test of files.length, one
\* without the test of the credential.
UploadCheckWithoutFiles == IF ~isApiKeyConfigured THEN "nokey" ELSE "go"
UploadCheckWithoutKey == IF Len(files) = 0 THEN "nofiles" ELSE "go"

\* The handler's two guards, in the order it tests them.
UploadCheck ==
    IF ~isApiKeyConfigured THEN "nokey"
    ELSE IF Len(files) = 0 THEN "nofiles"
    ELSE "go"

\* handleUploadAndStartChat up to its first await (createRagStore is called).
handleUploadAndStartChat ==
    /\ mounted /\ status = "Welcome"
    /\ CASE UploadCheck = "nokey" ->
              /\ apiKeyError' = MsgKeyRequired
              /\ UNCHANGED <<status, error, uploadProgress, ai, flows>>
         [] UploadCheck = "nofiles" ->
              UNCHANGED <<apiKeyError, status, error, uploadProgress, ai, flows>>
         [] UploadCheck = "go" /\ ~InitializeOk(UploadKey) ->
              /\ apiKeyError' = NULL
              /\ error' = handleErrorText(MsgInitFailed, ErrNoKey)
              /\ status' = "Error"
              /\ UNCHANGED <<uploadProgress, ai, flows>>
         [] UploadCheck = "go" /\ InitializeOk(UploadKey) ->
              /\ HasFreeFlow /\ StoresLeft
              /\ apiKeyError' = NULL
              /\ ai' = TRUE
              /\ status' = "Uploading"
              /\ uploadProgress' =
                     Progress(0, Len(files) + 2, "Creazione dell'indice del documento...")
              /\ flows' = [flows EXCEPT ![FreeFlow] =
                     [pc |-> "create", i |-> 0, store |-> NULL, files |-> files,
                      avail |-> isAistudioAvailable, done |-> FALSE]]
              /\ UNCHANGED error
    /\ UNCHANGED <<envVars, mounted, isAistudioAvailable, isApiKeySelected, apiKey,
                   sessionVars, isQueryLoading, files, ragStoreNameRef, localStorage,
                   initVars, queries, remoteVars>>

\* The WelcomeScreen's button, rendered when files are selected and enabled
\* when a key is configured.
ButtonEnabled == Len(files) > 0 /\ isApiKeyConfigured
handleConfirmUpload ==
    ButtonEnabled /\ handleUploadAndStartChat /\ lastOp' = "-" /\ UNCHANGED renderVars

\* The onUpload prop called where the button is not offered.
onUpload == ~ButtonEnabled /\ handleUploadAndStartChat /\ lastOp' = "onUpload" /\ UNCHANGED renderVars

\* Faulty variant of FlowFails: the catch block also empties the selected files.
FlowFailsClearingFiles(f, message) ==
    /\ IF message \in InvalidKeyErrors
       THEN /\ apiKeyError' = MsgKeyInvalid
            /\ isApiKeySelected' =
                   IF ClearsKeySelection(flows[f].avail) THEN FALSE ELSE isApiKeySelected
            /\ status' = "Welcome"
            /\ UNCHANGED error
       ELSE /\ error' = handleErrorText(MsgUploadFailed, message)
            /\ status' = "Error"
            /\ UNCHANGED <<apiKeyError, isApiKeySelected>>
    /\ uploadProgress' = <<>>
    /\ files' = <<>>
    /\ flows' = [flows EXCEPT ![f] = NoFlow]
    /\ UNCHANGED <<envVars, mounted, isAistudioAvailable, apiKey, sessionVars,
                   isQueryLoading, ragStoreNameRef, ai, localStorage, initVars,
                   queries, remoteVars>>

\* The catch and finally blocks of the flow, for an Error with this message.
FlowFails(f, message) ==
    /\ IF message \in InvalidKeyErrors
       THEN /\ apiKeyError' = MsgKeyInvalid
            /\ isApiKeySelected' =
                   IF ClearsKeySelection(flows[f].avail) THEN FALSE ELSE isApiKeySelected
            /\ status' = "Welcome"
            /\ UNCHANGED error
       ELSE /\ error' = handleErrorText(MsgUploadFailed, message)
            /\ status' = "Error"
            /\ UNCHANGED <<apiKeyError, isApiKeySelected>>
    /\ uploadProgress' = <<>>
    /\ flows' = [flows EXCEPT ![f] = NoFlow]
    /\ UNCHANGED <<envVars, mounted, isAistudioAvailable, apiKey, sessionVars,
                   isQueryLoading, files, ragStoreNameRef, ai, localStorage, initVars,
                   queries, remoteVars>>

\* The name the service gives the next store it creates.
NextStore == StoreName(Cardinality(remoteStores) + 1)

\* createRagStore returned: the first file is submitted.
CreateDone(f) ==
    /\ mounted /\ flows[f].pc = "create"
    /\ remoteStores' = remoteStores \cup {NextStore}
    /\ uploadProgress' =
           Progress(1, Len(flows[f].files) + 2, "Generazione degli incorporamenti...")
    /\ flows' = [flows EXCEPT ![f].pc = "upload", ![f].i = 1, ![f].store = NextStore]
    /\ lastOp' = "-"
    /\ UNCHANGED renderVars
    /\ UNCHANGED <<envVars, mounted, status, isAistudioAvailable, keyVars, error,
                   sessionVars, isQueryLoading, files, ragStoreNameRef, ai,
                   localStorage, initVars, queries, deleteReqs>>

\* createRagStore threw: the service rejected the call or named no store.
CreateFailed(f, message) ==
    /\ mounted /\ flows[f].pc = "create"
    /\ FlowFails(f, message)
    /\ lastOp' = "-"
    /\ UNCHANGED renderVars

\* Faulty variant of FlowAdvance: the suggestions are not requested.
FlowAdvanceWithoutSuggestions(f, done) ==
    LET fl == flows[f]
    IN  IF fl.i < Len(fl.files)
        THEN /\ uploadProgress' = ProgressFrom(uploadProgress, fl.i + 1,
                                      "Generazione degli incorporamenti...")
             /\ flows' = [flows EXCEPT ![f].pc = "upload", ![f].i = fl.i + 1,
                                       ![f].done = done]
        ELSE /\ uploadProgress' = Progress(Len(fl.files) + 1, Len(fl.files) + 2,
                                      "Generazione di suggerimenti...")
             /\ flows' = [flows EXCEPT ![f].pc = "delay", ![f].done = done]

\* Faulty variant of FlowAdvance: the suggestions are requested as soon as one
\* file is done.
FlowAdvanceAfterFirstFile(f, done) ==
    /\ uploadProgress' = Progress(Len(flows[f].files) + 1, Len(flows[f].files) + 2,
                              "Generazione di suggerimenti...")
    /\ flows' = [flows EXCEPT ![f].pc = "suggest", ![f].done = done]

\* After file i was observed done: the next file is submitted, or the
\* suggestions are requested.
FlowAdvance(f, done) ==
    LET fl == flows[f]
    IN  IF fl.i < Len(fl.files)
        THEN /\ uploadProgress' = ProgressFrom(uploadProgress, fl.i + 1,
                                      "Generazione degli incorporamenti...")
             /\ flows' = [flows EXCEPT ![f].pc = "upload", ![f].i = fl.i + 1,
                                       ![f].done = done]
        ELSE /\ uploadProgress' = Progress(Len(fl.files) + 1, Len(fl.files) + 2,
                                      "Generazione di suggerimenti...")
             /\ flows' = [flows EXCEPT ![f].pc = "suggest", ![f].done = done]

\* Faulty variant of PollAgain: the operation is taken as done when received.
PollNever(done) == FALSE

\* uploadToRagStore's loop test, on the operation last received.
PollAgain(done) == ~done

\* uploadToFileSearchStore (pc "upload") or operations.get (pc "poll") answered
\* with an operation.
OperationReceived(f, done) ==
    /\ mounted /\ flows[f].pc \in {"upload", "poll"}
    /\ IF PollAgain(done)
       THEN /\ flows' = [flows EXCEPT ![f].pc = "poll", ![f].done = done]
            /\ UNCHANGED uploadProgress
       ELSE FlowAdvance(f, done)
    /\ lastOp' = "-"
    /\ UNCHANGED renderVars
    /\ UNCHANGED <<envVars, mounted, status, isAistudioAvailable, keyVars, error,
                   sessionVars, isQueryLoading, files, ragStoreNameRef, ai,
                   localStorage, initVars, queries, remoteVars>>

\* uploadToFileSearchStore or operations.get threw.
OperationFailed(f, message) ==
    /\ mounted /\ flows[f].pc \in {"upload", "poll"}
    /\ FlowFails(f, message)
    /\ lastOp' = "-"
    /\ UNCHANGED renderVars

\* generateExampleQuestions returned (it catches every failure of its own).
QuestionsReceived(f, questions) ==
    /\ mounted /\ flows[f].pc = "suggest"
    /\ exampleQuestions' = questions
    /\ uploadProgress' = Progress(Len(flows[f].files) + 2, Len(flows[f].files) + 2,
                                  "Tutto pronto!")
    /\ flows' = [flows EXCEPT ![f].pc = "delay"]
    /\ localStorage' = StorageAfter(localStorage, activeRagStoreName, documentName,
                                    chatHistory, questions)
    /\ lastOp' = "-"
    /\ UNCHANGED renderVars
    /\ UNCHANGED <<envVars, mounted, status, isAistudioAvailable, keyVars, error,
                   activeRagStoreName, chatHistory, documentName, isQueryLoading,
                   files, ragStoreNameRef, ai, initVars, queries, remoteVars>>

\* The 500 ms delay passed: the session starts.
FlowCompletes(f) ==
    /\ mounted /\ flows[f].pc = "delay"
    /\ documentName' = DocName(flows[f].files)
    /\ chatHistory' = <<>>
    /\ activeRagStoreName' = flows[f].store
    /\ status' = "Chatting"
    /\ files' = <<>>
    /\ uploadProgress' = <<>>
    /\ flows' = [flows EXCEPT ![f] = NoFlow]
    /\ ragStoreNameRef' = RefAfter(flows[f].store)
    /\ localStorage' = StorageAfter(localStorage, flows[f].store,
                                    DocName(flows[f].files), <<>>, exampleQuestions)
    /\ lastOp' = "-"
    /\ UNCHANGED renderVars
    /\ UNCHANGED <<envVars, mounted, isAistudioAvailable, keyVars, error,
                   exampleQuestions, isQueryLoading, ai, initVars, queries,
                   remoteVars>>

\* --------------------------------------------------------------------- chat
UserMessage(text) == [role |-> "user", text |-> text, groundingChunks |-> <<>>]
\* Faulty variant of ModelMessage: the grounding chunks of the result are dropped.
ModelMessageWithoutChunks(text, chunks) ==
    [role |-> "model", text |-> text, groundingChunks |-> <<>>]
\* groundingChunks: <<>> when the message has none, <<chunks>> otherwise.
ModelMessage(text, chunks) == [role |-> "model", text |-> text, groundingChunks |-> <<chunks>>]
\* Faulty variant of ErrorMessage: the turn carries the query label, not the apology.
ErrorMessageWithLabel == [role |-> "model", text |-> MsgQueryFailed, groundingChunks |-> <<>>]
ErrorMessage == [role |-> "model", text |-> MsgApology, groundingChunks |-> <<>>]
ChunkLists == {<<"c1">>}

RECURSIVE SumOver(_, _)
SumOver(fn, S) ==
    IF S = {} THEN 0
    ELSE LET x == CHOOSE y \in S : TRUE IN fn[x] + SumOver(fn, S \ {x})
TotalPending == SumOver(queries, StoreNames)

\* handleSendMessage up to its await of fileSearch.
handleSendMessage(message) ==
    /\ mounted /\ status = "Chatting"
    /\ IF ~Truthy(activeRagStoreName)
       THEN UNCHANGED <<chatHistory, isQueryLoading, queries, localStorage>>
       ELSE /\ Len(chatHistory) + TotalPending + 2 <= MaxHist
            /\ TotalPending < MaxPending
            /\ chatHistory' = Append(chatHistory, UserMessage(message))
            /\ isQueryLoading' = TRUE
            /\ queries' = [queries EXCEPT ![activeRagStoreName] = @ + 1]
            /\ localStorage' = StorageAfter(localStorage, activeRagStoreName,
                                   documentName, chatHistory', exampleQuestions)
    /\ UNCHANGED <<envVars, mounted, status, isAistudioAvailable, keyVars, error,
                   uploadProgress, activeRagStoreName, exampleQuestions, documentName,
                   files, ragStoreNameRef, ai, initVars, flows, remoteVars>>

\* The chat form: the input is disabled while a query is loading.
handleSubmit ==
    ~isQueryLoading /\ handleSendMessage(UserText) /\ lastOp' = "-" /\ UNCHANGED renderVars

\* A suggestion button: offered while the history is empty, the first five.
SuggestionClicked(n) ==
    /\ Len(chatHistory) = 0
    /\ n \in 1..Len(exampleQuestions) /\ n <= 5
    /\ handleSendMessage(exampleQuestions[n])
    /\ lastOp' = "-"
    /\ UNCHANGED renderVars

\* Faulty variant of QueryFinally: the flag is left as it was.
QueryFinallySkipped == UNCHANGED isQueryLoading

\* The finally block of handleSendMessage.
QueryFinally == isQueryLoading' = FALSE

\* fileSearch returned for a query sent against store s.
QueryAnswered(s, chunks) ==
    /\ mounted /\ queries[s] > 0
    /\ queries' = [queries EXCEPT ![s] = @ - 1]
    /\ chatHistory' = Append(chatHistory, ModelMessage(ModelText, chunks))
    /\ QueryFinally
    /\ localStorage' = StorageAfter(localStorage, activeRagStoreName, documentName,
                                    chatHistory', exampleQuestions)
    /\ lastOp' = "-"
    /\ UNCHANGED renderVars
    /\ UNCHANGED <<envVars, mounted, status, isAistudioAvailable, keyVars, error,
                   uploadProgress, activeRagStoreName, exampleQuestions, documentName,
                   files, ragStoreNameRef, ai, initVars, flows, remoteVars>>

\* fileSearch threw.
QueryFailed(s, message) ==
    /\ mounted /\ queries[s] > 0
    /\ queries' = [queries EXCEPT ![s] = @ - 1]
    /\ chatHistory' = Append(chatHistory, ErrorMessage)
    /\ error' = handleErrorText(MsgQueryFailed, message)
    /\ status' = "Error"
    /\ QueryFinally
    /\ localStorage' = StorageAfter(localStorage, activeRagStoreName, documentName,
                                    chatHistory', exampleQuestions)
    /\ lastOp' = "-"
    /\ UNCHANGED renderVars
    /\ UNCHANGED <<envVars, mounted, isAistudioAvailable, keyVars, uploadProgress,
                   activeRagStoreName, exampleQuestions, documentName, files,
                   ragStoreNameRef, ai, initVars, flows, remoteVars>>

\* handleEndChat, the "Nuova Chat" button of the chat screen.
handleEndChat ==
    /\ mounted /\ status = "Chatting"
    /\ IF Truthy(activeRagStoreName)
       THEN deleteReqs' = DeleteIssued(deleteReqs, activeRagStoreName)
       ELSE UNCHANGED deleteReqs
    /\ activeRagStoreName' = NULL
    /\ chatHistory' = <<>>
    /\ exampleQuestions' = <<>>
    /\ documentName' = ""
    /\ files' = <<>>
    /\ status' = "Welcome"
    /\ ragStoreNameRef' = RefAfter(NULL)
    /\ localStorage' = StorageAfter(localStorage, NULL, "", <<>>, <<>>)
    /\ lastOp' = "-"
    /\ UNCHANGED renderVars
    /\ UNCHANGED <<envVars, mounted, isAistudioAvailable, keyVars, error,
                   uploadProgress, isQueryLoading, ai, initVars, flows, queries,
                   remoteStores>>

\* The promise of a delete request of handleEndChat settles; both callbacks
\* only log.
DeleteSettled(s, ok) ==
    /\ mounted /\ deleteReqs[s] > 0
    /\ lastOp' = "-"
    /\ UNCHANGED renderVars
    /\ UNCHANGED <<envVars, mounted, status, isAistudioAvailable, keyVars, error,
                   uploadProgress, sessionVars, isQueryLoading, files, ragStoreNameRef,
                   ai, localStorage, initVars, flows, queries, remoteVars>>

\* clearError, the "Riprova" button of the error screen.
clearError ==
    /\ mounted /\ status = "Error"
    /\ error' = NULL
    /\ status' = "Welcome"
    /\ lastOp' = "-"
    /\ UNCHANGED renderVars
    /\ UNCHANGED <<envVars, mounted, isAistudioAvailable, keyVars, uploadProgress,
                   sessionVars, isQueryLoading, files, ragStoreNameRef, ai,
                   localStorage, initVars, flows, queries, remoteVars>>

\* ---------------------------------------------------------- specification
Next ==
    \/ Mount
    \/ Reload
    \/ InitCheck
    \/ InitDecide
    \/ checkApiKey
    \/ handleSelectKey
    \/ \E k \in KeyInputs : setApiKey(k)
    \/ \E name \in {UserFiles[n] : n \in {Len(files) + 1} \cap DOMAIN UserFiles} :
          handleFileChange(name)
    \/ \E n \in {Len(files)} : handleRemoveFile(n)
    \/ handleConfirmUpload
    \/ onUpload
    \/ \E f \in 1..MaxFlows : CreateDone(f)
    \/ \E f \in 1..MaxFlows, m \in FlowErrors : CreateFailed(f, m)
    \/ \E f \in 1..MaxFlows, done \in BOOLEAN : OperationReceived(f, done)
    \/ \E f \in 1..MaxFlows, m \in RemoteErrors : OperationFailed(f, m)
    \/ \E f \in 1..MaxFlows, qs \in QuestionLists : QuestionsReceived(f, qs)
    \/ \E f \in 1..MaxFlows : FlowCompletes(f)
    \/ handleSubmit
    \/ \E n \in 1..2 : SuggestionClicked(n)
    \/ \E s \in StoreNames, c \in ChunkLists : QueryAnswered(s, c)
    \/ \E s \in StoreNames : QueryFailed(s, ErrFetch)
    \/ handleEndChat
    \/ \E s \in StoreNames, ok \in BOOLEAN : DeleteSettled(s, ok)
    \/ clearError

Spec == Init /\ [][Next]_vars

\* fileSearch settles for a query sent against store s.
QueryReturns(s) ==
    \/ \E c \in ChunkLists : QueryAnswered(s, c)
    \/ QueryFailed(s, ErrFetch)

\* The behaviours in which the mount effects of a loaded page run and the
\* service settles every query it received.
FairSpec ==
    /\ Init
    /\ [][Next]_vars
    /\ WF_vars(Mount)
    /\ \A s \in StoreNames : WF_vars(QueryReturns(s))

\* The behaviours in which the page stays loaded and the remote service answers
\* every call: it creates the store, reports each operation done at once,
\* returns ServiceQuestions and answers each query; every pending answer and the
\* 500 ms timer arrive.
ServiceQuestions == <<"d1", "d2">>
NextServiceOk ==
    \/ Mount
    \/ InitCheck
    \/ InitDecide
    \/ checkApiKey
    \/ handleSelectKey
    \/ \E k \in KeyInputs : setApiKey(k)
    \/ \E name \in {UserFiles[n] : n \in {Len(files) + 1} \cap DOMAIN UserFiles} :
          handleFileChange(name)
    \/ \E n \in {Len(files)} : handleRemoveFile(n)
    \/ handleConfirmUpload
    \/ onUpload
    \/ \E f \in 1..MaxFlows : CreateDone(f)
    \/ \E f \in 1..MaxFlows : OperationReceived(f, TRUE)
    \/ \E f \in 1..MaxFlows : QuestionsReceived(f, ServiceQuestions)
    \/ \E f \in 1..MaxFlows : FlowCompletes(f)
    \/ handleSubmit
    \/ \E n \in 1..2 : SuggestionClicked(n)
    \/ \E s \in StoreNames, c \in ChunkLists : QueryAnswered(s, c)
    \/ handleEndChat
    \/ \E s \in StoreNames, ok \in BOOLEAN : DeleteSettled(s, ok)
    \/ clearError

ServiceOkSpec ==
    /\ Init
    /\ [][NextServiceOk]_vars
    /\ \A f \in 1..MaxFlows :
          /\ WF_vars(CreateDone(f))
          /\ WF_vars(OperationReceived(f, TRUE))
          /\ WF_vars(QuestionsReceived(f, ServiceQuestions))
          /\ WF_vars(FlowCompletes(f))

\* ----------------------------------------------------------- renderMarkdown
\* The lines a rendered text may consist of.  The backquote is written ^.
BlankLines == {"", " "}
PlainLines == {"ciao", "due parole"}
OlLines == {"1. uno", " 12. due"}
UlLines == {"- tre", "* quattro"}
MarkedLines == {"**b** e _i_", "un ^c^", "* a *b*", "1.x"}
RenderLines == BlankLines \cup PlainLines \cup OlLines \cup UlLines \cup MarkedLines

MaxLines == 3

\* Array.prototype.join
RECURSIVE join(_, _)
join(ls, sep) ==
    IF ls = <<>> THEN ""
    ELSE IF Len(ls) = 1 THEN ls[1]
         ELSE ls[1] \o sep \o join(Tail(ls), sep)

RECURSIVE LineSeqs(_)
LineSeqs(n) ==
    IF n = 0 THEN {<<>>}
    ELSE LineSeqs(n - 1)
         \cup {Append(ls, l) : ls \in {x \in LineSeqs(n - 1) : Len(x) = n - 1},
                               l \in RenderLines}

\* The texts handed to renderMarkdown: up to MaxLines lines joined by line breaks.
RenderTexts == {join(ls, "\n") : ls \in LineSeqs(MaxLines)}

\* String.prototype.split on a one-character separator
RECURSIVE split(_, _)
split(s, sep) ==
    IF Occurrences(s, sep) = {} THEN <<s>>
    ELSE <<SubSeq(s, 1, Least(Occurrences(s, sep)) - 1)>>
         \o split(SubSeq(s, Least(Occurrences(s, sep)) + 1, Len(s)), sep)

StartsWith(s, prefix) == Len(s) >= Len(prefix) /\ SubSeq(s, 1, Len(prefix)) = prefix
From(s, n) == SubSeq(s, n, Len(s))

\* s.replace(/D(.*?)D|E(.*?)E/g, open $1$2 close) for the delimiters <<D, E>>:
\* at each place the first delimiter that opens there and closes later wins,
\* the nearest closing delimiter ends the match, the scan goes on behind it.
RECURSIVE replaceDelimited(_, _, _, _)
replaceDelimited(s, delims, open, close) ==
    IF s = "" THEN ""
    ELSE LET hits == {d \in DOMAIN delims :
                         /\ StartsWith(s, delims[d])
                         /\ Occurrences(From(s, Len(delims[d]) + 1), delims[d]) # {}}
         IN  IF hits = {}
             THEN SubSeq(s, 1, 1) \o replaceDelimited(From(s, 2), delims, open, close)
             ELSE LET d == delims[Least(hits)]
                      rest == From(s, Len(d) + 1)
                      j == Least(Occurrences(rest, d))
                  IN  open \o SubSeq(rest, 1, j - 1) \o close
                      \o replaceDelimited(From(rest, j + Len(d)), delims, open, close)

\* s.replace(/^([^^]+)^/g, CodeOpen $1 </code>), ^ being the backquote: the
\* span between two backquotes when it is not empty.
RECURSIVE replaceCode(_)
replaceCode(s) ==
    IF s = "" THEN ""
    ELSE IF /\ StartsWith(s, "^")
            /\ Occurrences(From(s, 2), "^") # {}
            /\ Least(Occurrences(From(s, 2), "^")) > 1
         THEN LET rest == From(s, 2)
                  j == Least(Occurrences(rest, "^"))
              IN  "<code class=\"bg-hitech-surface/50 px-1 py-0.5 rounded-sm font-mono text-sm\">"
                  \o SubSeq(rest, 1, j - 1) \o "</code>"
                  \o replaceCode(From(rest, j + 1))
         ELSE SubSeq(s, 1, 1) \o replaceCode(From(s, 2))

\* The three replacements applied to a raw line.
Inline(rawLine) ==
    replaceCode(
        replaceDelimited(
            replaceDelimited(rawLine, <<"**", "__">>, "<strong>", "</strong>"),
            <<"*", "_">>, "<em>", "</em>"))

IsSpace(c) == c \in {" ", "\t"}
IsDigit(c) == c \in {"0", "1", "2", "3", "4", "5", "6", "7", "8", "9"}

\* The number of leading blanks, and of leading digits, of s.
RECURSIVE LeadingSpaces(_)
LeadingSpaces(s) ==
    IF s # "" /\ IsSpace(SubSeq(s, 1, 1)) THEN 1 + LeadingSpaces(From(s, 2)) ELSE 0
RECURSIVE LeadingDigits(_)
LeadingDigits(s) ==
    IF s # "" /\ IsDigit(SubSeq(s, 1, 1)) THEN 1 + LeadingDigits(From(s, 2)) ELSE 0

\* line.match(/^\s*\d+\.\s(.*)/) and its group 1
isOl(line) ==
    LET t == From(line, LeadingSpaces(line) + 1)
        d == LeadingDigits(t)
    IN  /\ d >= 1 /\ Len(t) >= d + 2
        /\ SubSeq(t, d + 1, d + 1) = "."
        /\ IsSpace(SubSeq(t, d + 2, d + 2))
isOl1(line) ==
    LET t == From(line, LeadingSpaces(line) + 1)
    IN  From(t, LeadingDigits(t) + 3)

\* line.match(/^\s*[\*\-]\s(.*)/) and its group 1
isUl(line) ==
    LET t == From(line, LeadingSpaces(line) + 1)
    IN  /\ Len(t) >= 2
        /\ SubSeq(t, 1, 1) \in {"*", "-"}
        /\ IsSpace(SubSeq(t, 2, 2))
isUl1(line) == From(line, LeadingSpaces(line) + 3)

\* line.trim() === ''
IsBlank(line) == LeadingSpaces(line) = Len(line)

ListOpen(type) ==
    IF type = "ol" THEN "<ol class=\"list-decimal list-inside my-2 pl-5 space-y-1\">"
    ELSE "<ul class=\"list-disc list-inside my-2 pl-5 space-y-1\">"

\* flushPara and flushList, as the html they leave.
flushPara(h, buffer) == IF buffer # "" THEN h \o "<p class=\"my-2\">" \o buffer \o "</p>" ELSE h

\* Faulty variant of flushList: the open list is forgotten without its end tag.
flushListWithoutEndTag(h, type) == h

flushList(h, type) == IF type # NULL THEN h \o "</" \o type \o ">" ELSE h

\* Faulty variant of addToPara: the lines of a paragraph are joined by a blank.
addToParaWithBlank(buffer, line) == buffer \o (IF buffer # "" THEN " " ELSE "") \o line

\* paraBuffer += (paraBuffer ? '<br/>' : '') + line
addToPara(buffer, line) == buffer \o (IF buffer # "" THEN "<br/>" ELSE "") \o line

\* Faulty variant of ListLine: the paragraph being collected is not flushed.
ListLineWithoutFlushPara(type, item) ==
    /\ html' = (IF listType # type
                THEN flushList(html, listType) \o ListOpen(type)
                ELSE html)
               \o "<li>" \o item \o "</li>"
    /\ UNCHANGED paraBuffer
    /\ listType' = type

\* A list line of the given type with item text item.
ListLine(type, item) ==
    /\ html' = (IF listType # type
                THEN flushList(flushPara(html, paraBuffer), listType) \o ListOpen(type)
                ELSE flushPara(html, paraBuffer))
               \o "<li>" \o item \o "</li>"
    /\ paraBuffer' = ""
    /\ listType' = type

\* renderMarkdown is called: the guard on an empty text, the split, the locals.
RenderBegin ==
    /\ renderPc = "start"
    /\ IF mdText = ""
       THEN renderPc' = "done" /\ UNCHANGED lines
       ELSE renderPc' = "loop" /\ lines' = split(mdText, "\n")
    /\ html' = "" /\ listType' = NULL /\ paraBuffer' = "" /\ lineNo' = 0
    /\ UNCHANGED <<mdText, appVars>>

\* One pass of the for loop.
RenderLine ==
    /\ renderPc = "loop" /\ lineNo < Len(lines)
    /\ lineNo' = lineNo + 1
    /\ LET line == Inline(lines[lineNo + 1])
       IN  IF isOl(line) THEN ListLine("ol", isOl1(line))
           ELSE IF isUl(line) THEN ListLine("ul", isUl1(line))
           ELSE /\ listType' = NULL
                /\ IF IsBlank(line)
                   THEN /\ html' = flushPara(flushList(html, listType), paraBuffer)
                        /\ paraBuffer' = ""
                   ELSE /\ html' = flushList(html, listType)
                        /\ paraBuffer' = addToPara(paraBuffer, line)
    /\ UNCHANGED <<mdText, lines, renderPc, appVars>>

\* Faulty variant of RenderEnd: the function returns without the last flushes.
RenderEndWithoutFlush ==
    /\ renderPc = "loop" /\ lineNo = Len(lines)
    /\ renderPc' = "done"
    /\ UNCHANGED <<mdText, lines, lineNo, html, paraBuffer, listType, appVars>>

\* Behind the loop: the last flushes and the return.
RenderEnd ==
    /\ renderPc = "loop" /\ lineNo = Len(lines)
    /\ html' = flushList(flushPara(html, paraBuffer), listType)
    /\ paraBuffer' = "" /\ listType' = NULL
    /\ renderPc' = "done"
    /\ UNCHANGED <<mdText, lines, lineNo, appVars>>

\* A message of the chat is rendered: one call of renderMarkdown for each text.
RenderInit ==
    /\ AppInit /\ app = "env" /\ ~aistudio /\ ~envKey
    /\ mdText \in RenderTexts
    /\ lines = <<>> /\ lineNo = 0 /\ html = "" /\ listType = NULL /\ paraBuffer = ""
    /\ renderPc = "start"

RenderNext ==
    \/ RenderBegin
    \/ RenderLine
    \/ RenderEnd

RenderSpec == RenderInit /\ [][RenderNext]_vars

\* ------------------------------------------------------------------ claims
\* The orchestrator's state apart from the inline credential error, and what
\* tells that a remote call was issued (a flow or a query started, the
\* service's own state).
orchestratorVars ==
    <<status, isAistudioAvailable, isApiKeySelected, apiKey, error, uploadProgress,
      activeRagStoreName, chatHistory, isQueryLoading, exampleQuestions,
      documentName, files, ragStoreNameRef, localStorage>>
remoteCallVars == <<ai, flows, queries, remoteStores, deleteReqs>>

\* C1, as the claim states it: from Welcome, onUpload with no selected file
\* changes no orchestrator variable, the inline credential error included, and
\* issues no remote call, whatever the credential state.
C1_EmptyUploadChangesNothing ==
    [][(lastOp' = "onUpload" /\ Len(files) = 0)
        => UNCHANGED <<orchestratorVars, apiKeyError, remoteCallVars>>]_vars

\* C1, amended: from Welcome, onUpload with no selected file leaves status at
\* Welcome, changes no orchestrator variable other than the inline credential
\* error and issues no remote call; the inline credential error is unchanged
\* when a credential is configured and becomes the key-required text when none
\* is.
C1_EmptyUpload ==
    [][(lastOp' = "onUpload" /\ Len(files) = 0)
        => /\ status' = "Welcome"
           /\ UNCHANGED <<orchestratorVars, remoteCallVars>>
           /\ IF isApiKeyConfigured THEN UNCHANGED apiKeyError
              ELSE apiKeyError' = MsgKeyRequired]_vars

\* C1 witness: onUpload has just run with no file selected and a credential
\* configured.
C1_Witness ==
    lastOp = "onUpload" /\ Len(files) = 0 /\ isApiKeyConfigured /\ status = "Welcome"

\* C2: status goes from Welcome to Uploading only in a run of the upload
\* handler that finds at least one selected file and a configured credential;
\* a run that finds no credential sets the inline credential error, leaves
\* status at Welcome and issues no remote call.
C2_UploadingOnlyWithFilesAndKey ==
    [][/\ (status = "Welcome" /\ status' = "Uploading")
           => Len(files) > 0 /\ isApiKeyConfigured /\ handleUploadAndStartChat
       /\ (lastOp' = "onUpload" /\ ~isApiKeyConfigured)
           => /\ apiKeyError' = MsgKeyRequired
              /\ status' = "Welcome"
              /\ UNCHANGED remoteCallVars]_vars

\* C2 witness: onUpload has just run with files selected and no credential.
C2_Witness ==
    /\ lastOp = "onUpload" /\ Len(files) > 0 /\ ~isApiKeyConfigured
    /\ apiKeyError = MsgKeyRequired /\ status = "Welcome"
\* A step in which flow f ends in its catch block with an Error of message m.
FlowFailsWith(f, m) ==
    /\ flows[f].pc # "idle" /\ flows'[f].pc = "idle"
    /\ CreateFailed(f, m) \/ OperationFailed(f, m)

\* C3, as the claim states it: when a remote call of the upload flow fails with
\* a message holding "api key not valid" or "requested entity was not found"
\* (in any letter case), status becomes Welcome, the inline credential error is
\* set and the credential is no longer configured, in the host-dialog mode and
\* in the user-supplied-key mode alike.
C3_InvalidKeyClearsCredential ==
    [][\A f \in 1..MaxFlows, m \in FlowErrors :
          (FlowFailsWith(f, m) /\ IsInvalidKeyError(m))
              => /\ status' = "Welcome"
                 /\ apiKeyError' = MsgKeyInvalid
                 /\ ~isApiKeyConfigured']_vars

\* C4: when store creation or a file upload fails with a message that holds
\* neither invalid-credential signature, status becomes Error (not Welcome, not
\* Chatting) and the error text holds the message of the failure.
C4_OtherFailuresGoToError ==
    [][\A f \in 1..MaxFlows, m \in FlowErrors :
          (FlowFailsWith(f, m) /\ ~IsInvalidKeyError(m))
              => status' = "Error" /\ includes(error', m)]_vars

\* C4 witness: a file upload after the first has failed with "Failed to fetch".
C4_Witness ==
    /\ status = "Error"
    /\ error = handleErrorText(MsgUploadFailed, ErrFetch)
    /\ uploadProgress = <<>>
    /\ remoteStores # {}
\* C5: with a service that answers every call successfully, confirming the
\* upload takes status from Welcome to Uploading, and a flow started on one file,
\* alone and with no startup run pending, leads to status Chatting with the
\* handle of a store the service created, the file's name as document label, as
\* many example questions as the service returned, no message and no selected
\* file.
C5_OneFileReachesChatting ==
    /\ [][\A f \in 1..MaxFlows :
            (flows[f].pc = "idle" /\ flows'[f].pc = "create")
                => status = "Welcome" /\ status' = "Uploading"]_vars
    /\ \A f \in 1..MaxFlows :
          (/\ flows[f].pc = "create" /\ Len(flows[f].files) = 1
           /\ status = "Uploading" /\ initPc = "idle"
           /\ \A g \in 1..MaxFlows \ {f} : flows[g].pc = "idle")
              ~> (/\ status = "Chatting"
                  /\ activeRagStoreName \in remoteStores
                  /\ documentName = UserFiles[1]
                  /\ Len(exampleQuestions) = Len(ServiceQuestions)
                  /\ chatHistory = <<>>
                  /\ files = <<>>)

\* C5 witness: the session of a one-file upload has just started.
C5_Witness ==
    /\ status = "Chatting"
    /\ activeRagStoreName \in remoteStores
    /\ documentName = UserFiles[1]
    /\ exampleQuestions = ServiceQuestions
    /\ chatHistory = <<>> /\ files = <<>> /\ uploadProgress = <<>>
    /\ \A f \in 1..MaxFlows : flows[f].pc = "idle"
\* Flow f is inside uploadToRagStore, waiting for an operation.
InPollLoop(f) == flows[f].pc \in {"upload", "poll"}

\* C6: a flow inside uploadToRagStore goes on to the next file or to the
\* suggestions only in a step that receives an operation with done = true; an
\* operation received with done = false puts the flow back to polling, and a
\* poll answered so leaves the flow as it was, with nothing that counts the
\* polls; short of a thrown error or a reload nothing else takes the flow out
\* of the loop, and while a flow is in the loop status leaves Uploading only
\* through an answer of the service or the pending startup run, never through
\* a handler the user triggers on the page.
C6_PollsUntilDone ==
    [][\A f \in 1..MaxFlows :
          InPollLoop(f) =>
              /\ (flows'[f] # flows[f])
                     => \/ /\ flows'[f].done
                           /\ \/ flows'[f].pc = "upload" /\ flows'[f].i = flows[f].i + 1
                              \/ flows'[f].pc = "suggest" /\ flows[f].i = Len(flows[f].files)
                        \/ ~flows'[f].done /\ flows'[f].pc = "poll"
                        \/ \E m \in FlowErrors : OperationFailed(f, m)
                        \/ Reload
              /\ (flows[f].pc = "poll" /\ OperationReceived(f, FALSE))
                     => UNCHANGED <<flows, status, uploadProgress>>
              /\ (status = "Uploading" /\ status' # "Uploading")
                     => \/ \E g \in 1..MaxFlows : FlowCompletes(g)
                        \/ \E g \in 1..MaxFlows, m \in FlowErrors : FlowFailsWith(g, m)
                        \/ \E s \in StoreNames : QueryFailed(s, ErrFetch)
                        \/ InitDecide
                        \/ Reload]_vars

\* C6 witness: a flow is polling an operation it has received not done, with
\* status Uploading.
C6_Witness ==
    \E f \in 1..MaxFlows : flows[f].pc = "poll" /\ status = "Uploading"
\* C7: the session of a completed flow on N >= 1 files is labelled with the
\* file's name when N = 1, with "<first name> e <second name>" when N = 2 and
\* with "N documenti" when N > 2.
C7_DocumentLabel ==
    [][\A f \in 1..MaxFlows :
          FlowCompletes(f) =>
              LET fs == flows[f].files
                  N == Len(fs)
              IN  /\ N >= 1
                  /\ (N = 1) => documentName' = fs[1]
                  /\ (N = 2) => documentName' = fs[1] \o " e " \o fs[2]
                  /\ (N > 2) => documentName' = ToString(N) \o " documenti"]_vars

\* C7 witness: a session on three files has started.
C7_Witness ==
    status = "Chatting" /\ documentName = "3 documenti" /\ Truthy(activeRagStoreName)

\* C8: handleEndChat from Chatting sets status Welcome, clears the store handle,
\* the chat history, the example questions, the document label and the selected
\* files, and sends the service one delete request, for the handle that was
\* active, and none for another store (none at all when no handle was active);
\* a delete request that settles, failed or not, changes neither status nor
\* error.
C8_EndChat ==
    [][/\ handleEndChat
           => /\ status' = "Welcome"
              /\ activeRagStoreName' = NULL
              /\ chatHistory' = <<>>
              /\ exampleQuestions' = <<>>
              /\ documentName' = ""
              /\ files' = <<>>
              /\ \A s \in StoreNames :
                    deleteReqs'[s] =
                        deleteReqs[s] + (IF s = activeRagStoreName THEN 1 ELSE 0)
       /\ \A s \in StoreNames, ok \in BOOLEAN :
              DeleteSettled(s, ok) => UNCHANGED <<status, error>>]_vars

\* C8 witness: the persisting App has ended a session and its one delete
\* request is with the service.
C8_Witness ==
    /\ app = "stored" /\ status = "Welcome" /\ activeRagStoreName = NULL
    /\ chatHistory = <<>> /\ documentName = "" /\ files = <<>>
    /\ \E s \in StoreNames : deleteReqs[s] = 1

\* The persisted entries that depend on the store handle's.
DependentKeys == {"documentName", "chatHistory", "exampleQuestions"}

\* C9, as the claim states it: whenever the page is loaded with no startup run
\* pending and local storage holds no store-handle entry, it holds no
\* document-label, chat-history or example-questions entry either.
C9_NoHandleNoDependents ==
    (mounted /\ initPc = "idle" /\ "ragStoreName" \notin DOMAIN localStorage)
        => DOMAIN localStorage \cap DependentKeys = {}

\* C10, as the claim states it: after handleEndChat and its persistence effects
\* local storage holds none of the entries of the credential, the store handle,
\* the document label, the chat history and the example questions.
C10_EndChatClearsAllFive ==
    [][handleEndChat
        => DOMAIN localStorage'
             \cap ({"geminiApiKey", "ragStoreName"} \cup DependentKeys) = {}]_vars

\* C10, amended: after handleEndChat and its persistence effects the persisting
\* App's local storage holds none of the entries of the store handle, the
\* document label, the chat history and the example questions, and the entry of
\* the credential is as it was before.
C10_EndChatClearsSession ==
    [][(handleEndChat /\ app = "stored")
        => /\ DOMAIN localStorage' \cap ({"ragStoreName"} \cup DependentKeys) = {}
           /\ getItem(localStorage', "geminiApiKey") = getItem(localStorage, "geminiApiKey")]_vars

\* C10 witness: the persisting App has ended a session started with a typed
\* key, and the key's entry is still stored.
C10_Witness ==
    /\ app = "stored" /\ status = "Welcome" /\ activeRagStoreName = NULL
    /\ getItem(localStorage, "geminiApiKey") = apiKey /\ trim(apiKey) # ""
    /\ DOMAIN localStorage = {"geminiApiKey"}
    /\ \E s \in StoreNames : deleteReqs[s] > 0
\* What the initialize effect of the persisting App needs for a silent resume,
\* read from local storage as the reload left it.
PersistedResume ==
    /\ app = "stored"
    /\ Truthy(getItem(localStorage, "ragStoreName"))
    /\ trim(StoredString(localStorage, "geminiApiKey")) # ""
    /\ InitializeOk(getItem(localStorage, "geminiApiKey"))

\* The step leaves the session state equal to the persisted entries.
ResumedAsPersisted ==
    /\ activeRagStoreName' = getItem(localStorage, "ragStoreName")
    /\ chatHistory' = StoredArray(localStorage, "chatHistory")
    /\ documentName' = StoredString(localStorage, "documentName")
    /\ exampleQuestions' = StoredArray(localStorage, "exampleQuestions")
    /\ localStorage' = localStorage

\* C11: a page that is loading leaves Initializing.  It leaves it in the mount
\* effects, for Chatting or for Welcome: for Chatting only in the persisting App
\* with a store handle and a non-blank key persisted and a client that
\* initializes, and then with the handle, the chat history, the document label
\* and the example questions that local storage held before the reload.  The
\* startup run under the host dialog sets Chatting only if it read a persisted
\* handle, the host reports a selected key and the client initializes, and
\* Welcome whenever the host answers otherwise.
C11_Startup ==
    /\ (status = "Initializing") ~> (status # "Initializing")
    /\ [][(status = "Initializing" /\ status' # "Initializing")
            => (/\ Mount
                /\ status' \in {"Welcome", "Chatting"}
                /\ (status' = "Chatting") = PersistedResume
                /\ (status' = "Chatting") => ResumedAsPersisted)]_vars
    /\ [][InitDecide
            => (/\ status' \in {"Welcome", "Chatting", status}
                /\ (status' = "Chatting" /\ status # "Chatting")
                      => (Truthy(initStored) /\ hostKey /\ InitializeOk(NULL)))]_vars

\* C11 witness: a session was resumed whose last message is a user turn that no
\* pending query will answer (the page was reloaded while the query was out).
C11_Witness ==
    /\ mounted /\ status = "Chatting" /\ Truthy(activeRagStoreName)
    /\ Len(chatHistory) = 1 /\ chatHistory[1].role = "user"
    /\ ~isQueryLoading /\ TotalPending = 0
\* A step of handleSendMessage that found a store handle.
SendsMessage ==
    /\ handleSubmit \/ \E n \in 1..5 : SuggestionClicked(n)
    /\ Truthy(activeRagStoreName)

\* The number of user turns in a history.
RECURSIVE UserTurns(_)
UserTurns(h) ==
    IF h = <<>> THEN 0
    ELSE UserTurns(SubSeq(h, 1, Len(h) - 1))
         + (IF h[Len(h)].role = "user" THEN 1 ELSE 0)

\* C12: a message sent while a store handle is active appends the user turn,
\* sets the loading flag and issues one query against the active store and no
\* other, all in the step that sends it; queries are issued by no other step; a
\* query that succeeds appends one model turn with the response text and the
\* grounding chunks at the end of the history, behind the user turn whenever the
\* store it was sent against is still the active one.
C12_SendThenAnswer ==
    /\ [][SendsMessage
            => (/\ Len(chatHistory') = Len(chatHistory) + 1
                /\ SubSeq(chatHistory', 1, Len(chatHistory)) = chatHistory
                /\ chatHistory'[Len(chatHistory')].role = "user"
                /\ chatHistory'[Len(chatHistory')].text \in
                       {UserText} \cup {exampleQuestions[n] : n \in 1..Len(exampleQuestions)}
                /\ isQueryLoading'
                /\ queries' = [queries EXCEPT ![activeRagStoreName] = @ + 1])]_vars
    /\ [][(\E s \in StoreNames : queries'[s] > queries[s]) => SendsMessage]_vars
    /\ [][\A s \in StoreNames : \A c \in ChunkLists :
            QueryAnswered(s, c)
            => (/\ Len(chatHistory') = Len(chatHistory) + 1
                /\ SubSeq(chatHistory', 1, Len(chatHistory)) = chatHistory
                /\ chatHistory'[Len(chatHistory')].role = "model"
                /\ chatHistory'[Len(chatHistory')].text = ModelText
                /\ chatHistory'[Len(chatHistory')].groundingChunks = <<c>>
                /\ queries' = [queries EXCEPT ![s] = @ - 1]
                /\ (s = activeRagStoreName) => (UserTurns(chatHistory) > 0))]_vars

\* C12 witness: the history of the active session ends with a user turn and the
\* model turn that answers it, and no query is pending.
C12_Witness ==
    /\ status = "Chatting" /\ Truthy(activeRagStoreName)
    /\ Len(chatHistory) >= 2
    /\ chatHistory[Len(chatHistory) - 1].role = "user"
    /\ chatHistory[Len(chatHistory)].role = "model"
    /\ chatHistory[Len(chatHistory)].text = ModelText
    /\ chatHistory[Len(chatHistory)].groundingChunks # <<>>
    /\ TotalPending = 0 /\ ~isQueryLoading
\* C13: a retrieval query that fails appends exactly one model turn, with the
\* fixed apology text and no grounding chunks, at the end of the history; the
\* same step sets status to Error and an error message that contains the cause.
C13_QueryFailure ==
    [][\A s \in StoreNames : \A m \in RemoteErrors :
        QueryFailed(s, m)
        => (/\ Len(chatHistory') = Len(chatHistory) + 1
            /\ SubSeq(chatHistory', 1, Len(chatHistory)) = chatHistory
            /\ chatHistory'[Len(chatHistory')].role = "model"
            /\ chatHistory'[Len(chatHistory')].text
                   = "Spiacente, ho riscontrato un errore. Riprova."
            /\ chatHistory'[Len(chatHistory')].groundingChunks = <<>>
            /\ status' = "Error"
            /\ includes(error', m)
            /\ includes(error', "Impossibile ottenere una risposta"))]_vars

\* C13 witness: the error screen after a failed query, the apology behind the
\* user turn.
C13_Witness ==
    /\ status = "Error"
    /\ Len(chatHistory) >= 2
    /\ chatHistory[Len(chatHistory) - 1].role = "user"
    /\ chatHistory[Len(chatHistory)].text = MsgApology
    /\ includes(error, ErrFetch)
\* C14: every step in which a query settles, with a result or with an error,
\* leaves the loading flag cleared; and when the service settles the queries it
\* received, a pending query leads to a state in which the flag is clear.
C14_LoadingCleared ==
    /\ [][(\E s \in StoreNames : QueryReturns(s)) => ~isQueryLoading']_vars
    /\ (TotalPending > 0) ~> ~isQueryLoading

\* C14 witness: a failed query has settled and the flag is clear.
C14_Witness ==
    /\ mounted /\ ~isQueryLoading /\ TotalPending = 0
    /\ chatHistory # <<>>
    /\ chatHistory[Len(chatHistory)] = ErrorMessage
\* C15: a step that changes the chat history and leaves the same store handle
\* active adds exactly one message at the end of the history; the messages
\* before it keep their content and their order.
C15_AppendOnly ==
    [][(/\ chatHistory' # chatHistory
        /\ Truthy(activeRagStoreName)
        /\ activeRagStoreName' = activeRagStoreName)
       => (/\ Len(chatHistory') = Len(chatHistory) + 1
           /\ SubSeq(chatHistory', 1, Len(chatHistory)) = chatHistory)]_vars

\* C15 witness: a session whose history grew to three messages, the answer to
\* an earlier session's query first.
C15_Witness ==
    /\ Truthy(activeRagStoreName)
    /\ Len(chatHistory) = 3
    /\ chatHistory[1].role = "model"
    /\ chatHistory[2].role = "user"
    /\ chatHistory[3].role = "model"
\* The value JSON.parse builds from a reply, when it builds one.
ReplyParses(response) ==
    response.outcome = "text" /\ JSONparseOk(ExtractJsonText(response.text))
ParsedReply(response) == JSONparseText(ExtractJsonText(response.text))

\* The strings of an array, in the array's order.
StringsOf(items) ==
    LET strings == SelectSeq(items, LAMBDA item : item.t = "string")
    IN  [n \in DOMAIN strings |-> strings[n].s]

\* The string questions of the products of a grouped array, in order.
RECURSIVE GroupedQuestions(_)
GroupedQuestions(items) ==
    IF items = <<>> THEN <<>>
    ELSE StringsOf(items[1].fields.questions.items) \o GroupedQuestions(Tail(items))

IsFlatStringArray(v) ==
    v.t = "array" /\ v.items # <<>> /\ \A n \in DOMAIN v.items : v.items[n].t = "string"
IsGroupedArray(v) ==
    v.t = "array" /\ v.items # <<>> /\ \A n \in DOMAIN v.items : IsNewFormat(v.items[n])
IsUnrecognized(v) ==
    \/ v.t # "array"
    \/ v.items # <<>> /\ v.items[1].t # "string" /\ ~IsNewFormat(v.items[1])

\* The replies that are a remote failure, an unparseable text, an unrecognized
\* shape, a flat string array or a grouped array, each with the list named for it.
ClaimedQuestions ==
    [response \in {r \in Responses :
                      \/ ~ReplyParses(r)
                      \/ IsUnrecognized(ParsedReply(r))
                      \/ IsFlatStringArray(ParsedReply(r))
                      \/ IsGroupedArray(ParsedReply(r))} |->
        IF ~ReplyParses(response) THEN <<>>
        ELSE IF IsUnrecognized(ParsedReply(response)) THEN <<>>
        ELSE IF IsFlatStringArray(ParsedReply(response))
             THEN StringsOf(ParsedReply(response).items)
             ELSE GroupedQuestions(ParsedReply(response).items)]

\* C16: whatever the suggestion request gets back, generateExampleQuestions
\* returns a list and the upload flow goes on to its last step with status and
\* error untouched; the list is empty for a rejected request, for a text that
\* does not parse and for a shape that is not recognized, the strings in order
\* for a flat string array, and the products' string questions concatenated in
\* order for a grouped array.
C16_QuestionsNeverFail ==
    [][\A f \in 1..MaxFlows : \A response \in Responses :
        QuestionsReceived(f, QuestionsOf[response])
        => (/\ status' = status /\ error' = error
            /\ flows'[f] = [flows[f] EXCEPT !.pc = "delay"]
            /\ exampleQuestions' \in {<<>>, <<"d1", "d2">>}
            /\ response \in DOMAIN ClaimedQuestions
                  => exampleQuestions' = ClaimedQuestions[response])]_vars

\* C16 witness: the suggestion step of an upload flow returned two questions
\* and the flow waits for its last step.
C16_Witness ==
    /\ status = "Uploading"
    /\ \E f \in 1..MaxFlows : flows[f].pc = "delay"
    /\ exampleQuestions = <<"d1", "d2">>
    /\ error = NULL
\* C17: when the page of the App with the unload listener is unloaded while a
\* store handle is active, the unload step adds one delete request for that
\* handle and for no other, and leaves it pending; when no handle is active
\* the unload step adds no delete request.
C17_UnloadDeletesActiveStore ==
    [][(Reload /\ app = "env")
       => (/\ Truthy(activeRagStoreName)
             => deleteReqs' = [deleteReqs EXCEPT ![activeRagStoreName] = @ + 1]
           /\ ~Truthy(activeRagStoreName) => deleteReqs' = deleteReqs
           /\ remoteStores' = remoteStores)]_vars

\* C17 witness: the page was unloaded, a delete request is pending and the
\* store it names is still there.
C17_Witness ==
    /\ app = "env" /\ ~mounted /\ status = "Initializing"
    /\ \E s \in StoreNames : deleteReqs[s] = 1 /\ s \in remoteStores
\* The list tags of an output, in the order in which they occur.
TagPlaces(h) ==
    {<<i, "ol">> : i \in Occurrences(h, "<ol")}
    \cup {<<i, "ul">> : i \in Occurrences(h, "<ul")}
    \cup {<<i, "li">> : i \in Occurrences(h, "<li>")}
    \cup {<<i, "/ol">> : i \in Occurrences(h, "</ol>")}
    \cup {<<i, "/ul">> : i \in Occurrences(h, "</ul>")}
    \cup {<<i, "/li">> : i \in Occurrences(h, "</li>")}

RECURSIVE InOrder(_)
InOrder(places) ==
    IF places = {} THEN <<>>
    ELSE LET first == CHOOSE p \in places : \A q \in places : p[1] <= q[1]
         IN  <<first[2]>> \o InOrder(places \ {first})

ListTags(h) == InOrder(TagPlaces(h))

\* The tags are balanced and no list is nested: a list opens only while none is
\* open, closes with its own end tag, an item opens only inside an open list
\* and outside any item, and at the end nothing is open.
RECURSIVE WellNested(_, _, _)
WellNested(tags, open, inItem) ==
    IF tags = <<>> THEN open = NULL /\ ~inItem
    ELSE LET tag == Head(tags)
         IN  CASE tag \in {"ol", "ul"} ->
                    open = NULL /\ ~inItem /\ WellNested(Tail(tags), tag, FALSE)
               [] tag \in {"/ol", "/ul"} ->
                    open # NULL /\ tag = "/" \o open /\ ~inItem
                    /\ WellNested(Tail(tags), NULL, FALSE)
               [] tag = "li" -> open # NULL /\ ~inItem /\ WellNested(Tail(tags), open, TRUE)
               [] OTHER -> inItem /\ WellNested(Tail(tags), open, FALSE)

\* For each <li> in order, the type of the list that is open around it.
RECURSIVE ItemLists(_, _)
ItemLists(tags, open) ==
    IF tags = <<>> THEN <<>>
    ELSE LET tag == Head(tags)
         IN  IF tag \in {"ol", "ul"} THEN ItemLists(Tail(tags), tag)
             ELSE IF tag \in {"/ol", "/ul"} THEN ItemLists(Tail(tags), NULL)
             ELSE IF tag = "li" THEN <<open>> \o ItemLists(Tail(tags), open)
             ELSE ItemLists(Tail(tags), open)

\* C18: when every line of the rendered text is an ordered-list or an
\* unordered-list item, in any alternation, the list tags of the output are
\* balanced and not nested, and the n-th <li> stands in an open list of the type
\* of the n-th line.
C18_ListTagsBalanced ==
    (/\ renderPc = "done" /\ lines # <<>>
     /\ \A n \in DOMAIN lines : lines[n] \in OlLines \cup UlLines)
    => /\ WellNested(ListTags(html), NULL, FALSE)
       /\ ItemLists(ListTags(html), NULL)
             = [n \in DOMAIN lines |-> IF lines[n] \in OlLines THEN "ol" ELSE "ul"]

\* C18 witness: a text of an ordered, an unordered and an ordered item has been
\* rendered.
C18_Witness ==
    /\ renderPc = "done"
    /\ lines = <<"1. uno", "- tre", " 12. due">>
    /\ ListTags(html) = <<"ol", "li", "/li", "/ol", "ul", "li", "/li", "/ul",
                          "ol", "li", "/li", "/ol">>
\* C19 as stated: a rendered text without markdown tokens, some of whose lines
\* may be blank but not all, comes out as one paragraph around the text with
\* each line break replaced by <br/>.
C19_PlainTextOneParagraph ==
    (/\ renderPc = "done"
     /\ \A n \in DOMAIN lines : lines[n] \in PlainLines \cup BlankLines
     /\ \E n \in DOMAIN lines : lines[n] \in PlainLines)
    => html = "<p class=\"my-2\">" \o join(split(mdText, "\n"), "<br/>") \o "</p>"

\* C19: a rendered text whose lines carry no markdown token and none of which
\* is blank comes out as exactly one paragraph around the lines, unchanged and
\* in order, with <br/> in place of each line break.
C19_PlainLinesOneParagraph ==
    (/\ renderPc = "done" /\ lines # <<>>
     /\ \A n \in DOMAIN lines : lines[n] \in PlainLines)
    => html = "<p class=\"my-2\">" \o join(lines, "<br/>") \o "</p>"

\* C19 witness: three plain lines have been rendered into one paragraph with
\* two <br/>.
C19_Witness ==
    /\ renderPc = "done"
    /\ lines = <<"ciao", "due parole", "ciao">>
    /\ html = "<p class=\"my-2\">ciao<br/>due parole<br/>ciao</p>"
\* Flow f takes a step from sub-step from to sub-step to.
FlowMoves(f, from, to) == flows[f].pc \in from /\ flows'[f].pc = to

RunningFlows == {f \in 1..MaxFlows : flows[f].pc # "idle"}

\* C21: while an upload flow over N files runs, the progress record has
\* 0 <= current <= total = N + 2; current does not decrease from one progress
\* update to the next; current = total only once the suggestion step has
\* finished; and the step that ends a flow, by success or by failure, leaves
\* the progress record null.
C21_ProgressMonotonic ==
    /\ [](\A f \in RunningFlows :
            /\ uploadProgress # <<>>
            /\ 0 <= uploadProgress[1].current
            /\ uploadProgress[1].current <= uploadProgress[1].total
            /\ uploadProgress[1].total = Len(flows[f].files) + 2
            /\ (uploadProgress[1].current = uploadProgress[1].total
                => flows[f].pc = "delay"))
    /\ [][(uploadProgress # <<>> /\ uploadProgress' # <<>>)
            => uploadProgress'[1].current >= uploadProgress[1].current]_vars
    /\ [][\A f \in RunningFlows : flows'[f].pc = "idle" => uploadProgress' = <<>>]_vars

\* The lists an output has opened and not closed.
OpenLists(h) ==
    Cardinality(Occurrences(h, "<ol") \cup Occurrences(h, "<ul"))
        - Cardinality(Occurrences(h, "</ol>") \cup Occurrences(h, "</ul>"))

\* The loop processes the line numbered lineNo', which is a list line or not.
ProcessesListLine ==
    renderPc = "loop" /\ lineNo' = lineNo + 1 /\ lines[lineNo'] \in OlLines \cup UlLines
ProcessesOtherLine ==
    renderPc = "loop" /\ lineNo' = lineNo + 1 /\ lines[lineNo'] \notin OlLines \cup UlLines

\* C22: inside the loop at most one list is open, namely the one listType
\* names, and never together with a non-empty paragraph buffer; a list line
\* first writes the collected paragraph out and leaves the buffer empty, and
\* any other line, blank or not, first writes the end tag of the open list.
C22_OneOpenContainer ==
    /\ [](renderPc = "loop"
          => /\ listType \in {NULL, "ol", "ul"}
             /\ OpenLists(html) = (IF listType = NULL THEN 0 ELSE 1)
             /\ ~(listType # NULL /\ paraBuffer # ""))
    /\ [][ProcessesListLine
          => /\ paraBuffer' = ""
             /\ listType' = (IF lines[lineNo'] \in OlLines THEN "ol" ELSE "ul")
             /\ paraBuffer # ""
                => StartsWith(html', html \o "<p class=\"my-2\">" \o paraBuffer \o "</p>")]_vars
    /\ [][ProcessesOtherLine
          => /\ listType' = NULL
             /\ listType # NULL => StartsWith(html', html \o "</" \o listType \o ">")
             /\ listType = NULL => StartsWith(html', html)]_vars

\* C22 witness: of the lines "ciao", "- tre", "due parole" the third has been
\* processed: the paragraph of the first was written before the list opened,
\* the list was closed by the third, which is now in the buffer.
C22_Witness ==
    /\ renderPc = "loop" /\ lineNo = 3
    /\ lines = <<"ciao", "- tre", "due parole">>
    /\ listType = NULL /\ paraBuffer = "due parole"
    /\ html = "<p class=\"my-2\">ciao</p>"
              \o "<ul class=\"list-disc list-inside my-2 pl-5 space-y-1\">"
              \o "<li>tre</li></ul>"

\* What a line is to the renderer, and the text it contributes: the line
\* without its list marker and with its inline markup replaced.
LineKind(line) ==
    IF line \in BlankLines THEN "blank"
    ELSE IF line \in OlLines THEN "ol"
    ELSE IF line \in UlLines THEN "ul"
    ELSE "para"
LineContent(line) ==
    CASE line = "1. uno" -> "uno"
      [] line = " 12. due" -> "due"
      [] line = "- tre" -> "tre"
      [] line = "* quattro" -> "quattro"
      [] line = "**b** e _i_" -> "<strong>b</strong> e <em>i</em>"
      [] line = "un ^c^" ->
           "un <code class=\"bg-hitech-surface/50 px-1 py-0.5 rounded-sm font-mono text-sm\">c</code>"
      [] line = "* a *b*" -> "<em> a </em>b*"
      [] OTHER -> line

\* Line n starts, or ends, a maximal run of lines of its kind.
StartsRun(ls, n) == n = 1 \/ LineKind(ls[n - 1]) # LineKind(ls[n])
EndsRun(ls, n) == n = Len(ls) \/ LineKind(ls[n + 1]) # LineKind(ls[n])

\* What line n adds to the output: nothing for a blank line; for a paragraph
\* line its content, behind the start tag when it starts a run and behind
\* <br/> otherwise, followed by the end tag when it ends the run; for a list
\* line its item inside the list of its run.
LinePiece(ls, n) ==
    LET kind == LineKind(ls[n])
    IN  CASE kind = "blank" -> ""
          [] kind = "para" ->
               (IF StartsRun(ls, n) THEN "<p class=\"my-2\">" ELSE "<br/>")
               \o LineContent(ls[n])
               \o (IF EndsRun(ls, n) THEN "</p>" ELSE "")
          [] OTHER ->
               (IF ~StartsRun(ls, n) THEN ""
                ELSE IF kind = "ol"
                THEN "<ol class=\"list-decimal list-inside my-2 pl-5 space-y-1\">"
                ELSE "<ul class=\"list-disc list-inside my-2 pl-5 space-y-1\">")
               \o "<li>" \o LineContent(ls[n]) \o "</li>"
               \o (IF EndsRun(ls, n) THEN "</" \o kind \o ">" ELSE "")

RECURSIVE PiecesFrom(_, _)
PiecesFrom(ls, n) ==
    IF n > Len(ls) THEN "" ELSE LinePiece(ls, n) \o PiecesFrom(ls, n + 1)

\* C23: when renderMarkdown returns, the output is the pieces of the lines in
\* input order: each maximal run of non-blank non-list lines is one paragraph
\* with its lines joined by <br/>, a blank line adds nothing and ends the
\* paragraph before it, and neither a paragraph nor a list is left open, so
\* every non-blank line's content stands in the output once, in input order.
C23_RunsBecomeParagraphs ==
    renderPc = "done"
    => /\ html = PiecesFrom(lines, 1)
       /\ paraBuffer = "" /\ listType = NULL
       /\ Cardinality(Occurrences(html, "<p ")) = Cardinality(Occurrences(html, "</p>"))
       /\ Cardinality(Occurrences(html, "<p "))
             = Cardinality({n \in DOMAIN lines :
                               LineKind(lines[n]) = "para" /\ StartsRun(lines, n)})

\* C23 witness: a blank line between two plain lines has been rendered: two
\* paragraphs, nothing for the blank line.
C23_Witness ==
    /\ renderPc = "done"
    /\ lines = <<"ciao", "", "due parole">>
    /\ html = "<p class=\"my-2\">ciao</p><p class=\"my-2\">due parole</p>"

\* C24: whenever the status is Chatting an active store handle is set.
C24_ChattingHasHandle == status = "Chatting" => Truthy(activeRagStoreName)

\* C25: whenever the status is Welcome no store handle is active and the chat
\* history is empty; in particular after the Error screen of a failed query
\* was dismissed.
C25_WelcomeHasNoSession ==
    status = "Welcome" => (activeRagStoreName = NULL /\ chatHistory = <<>>)

\* Store s is held: it is the active store handle, the target of a delete
\* request that was issued, or the store of an upload flow that still runs.
StoreHeld(s) ==
    \/ s = activeRagStoreName
    \/ deleteReqs[s] > 0
    \/ \E f \in RunningFlows : flows[f].store = s

\* C26: no remote store is orphaned.  While the page stays loaded, the store
\* a flow creates is held from its creation on, and no step lets go of a
\* store that was held: not the failure of a file upload, and not a new
\* upload that replaces the active handle.
C26_NoOrphanStore ==
    [][(mounted /\ mounted')
        => \A s \in remoteStores' :
              (s \in remoteStores => StoreHeld(s)) => StoreHeld(s)']_vars

\* C27: after the session was ended and before a new upload has succeeded
\* (no store handle, empty history), a query of the ended session that
\* completes, with an answer or with a failure, leaves the history empty and
\* does not bring the status to Error.
C27_EndedSessionStaysEnded ==
    [][((\E s \in StoreNames : QueryReturns(s))
        /\ activeRagStoreName = NULL /\ chatHistory = <<>>)
       => (chatHistory' = <<>> /\ status' # "Error")]_vars

\* C28: while a session is active, a step that appends a model turn to the
\* history is the return of a query that was sent against the active store; a
\* response to a query of an earlier session is not appended to the history
\* of a later one.
C28_AnswersBelongToSession ==
    [][\A s \in StoreNames :
          (/\ mounted /\ mounted'
           /\ queries'[s] < queries[s]
           /\ activeRagStoreName # NULL
           /\ Len(chatHistory') = Len(chatHistory) + 1
           /\ chatHistory'[Len(chatHistory')].role = "model")
          => s = activeRagStoreName]_vars

\* C29: the loading flag is set exactly while a query awaits its response, and
\* at most one query does so at any time.
C29_LoadingIffQueryInFlight ==
    /\ TotalPending <= 1
    /\ isQueryLoading <=> TotalPending > 0

\* The selected files and the session state a failed flow must not touch.
flowFrame == <<files, activeRagStoreName, chatHistory, documentName, exampleQuestions>>

\* C30: a flow that fails (it ends from the creation of the store, from an
\* upload or from a poll, with the page still loaded) leaves the selected
\* files, the store handle, the history, the document label and the example
\* questions as they are, and so does every step of a flow up to the request
\* of the suggestions, behind which a flow cannot fail any more; a step of a
\* flow changes the selected files only when the flow succeeds, and then
\* empties them.
C30_FailedFlowFrame ==
    [][\A f \in 1..MaxFlows :
          /\ (mounted' /\ FlowMoves(f, {"create", "upload", "poll"}, "idle"))
             => UNCHANGED flowFrame
          /\ (mounted' /\ flows'[f] # flows[f]
              /\ flows'[f].pc \in {"create", "upload", "poll", "suggest"})
             => UNCHANGED flowFrame
          /\ (mounted' /\ flows'[f] # flows[f] /\ files' # files)
             => (FlowMoves(f, {"delay"}, "idle") /\ files' = <<>>
                 /\ status' = "Chatting")]_vars

\* C30 witness: an upload has just failed on the Error screen while a file is
\* selected and the session of an earlier upload, with its two turns, is still
\* in place.
C30_Witness ==
    /\ status = "Error"
    /\ error = "Impossibile avviare la sessione di chat: Failed to fetch"
    /\ uploadProgress = <<>> /\ RunningFlows = {}
    /\ files = <<"a.pdf">>
    /\ activeRagStoreName = "fileSearchStores/1"
    /\ documentName = "a.pdf"
    /\ Len(chatHistory) = 2

====
